---- MODULE Spec2Model ----
(***************************************************************************)
(* State tracking and finalization of the ilo gallium driver               *)
(* (src/gallium/drivers/ilo/ilo_state.c): the dirty flag word, the slot    *)
(* arrays of the binding categories, the resource-change scan and the      *)
(* per-draw finalizer, as a state machine over one ilo_context.            *)
(***************************************************************************)
EXTENDS Integers, Sequences, FiniteSets, TLC

(***************************************************************************)
(* Bounds of the model.                                                    *)
(***************************************************************************)
\* capacity of every slot array (Elements(ilo->sampler[sh].cso), ...)
MaxSlots == 4
\* most entries a client passes to one bind/set call
MaxBind == 2
\* capacity of the constant-buffer and vertex-buffer arrays
MaxBuffers == 2
\* largest byte offset of an index-buffer binding
MaxOffset == 3
\* largest start of a draw
MaxDraw == 1
\* the upload manager starts a pass at offset 0 or at one further multiple
\* of its alignment, up to this many
MaxUploadBase == 1
\* width0 of the buffers the client creates, in bytes
BufferWidth == 16

NULL == "NULL"
\* a NULL array pointer passed where an array of handles is expected
NoArray == <<"no array">>

\* enum pipe_shader_type, PIPE_SHADER_TYPES entries
Shaders == {"VERTEX", "FRAGMENT", "GEOMETRY", "COMPUTE"}

\* the ILO_DIRTY_* bits; ILO_DIRTY_ALL has every bit of the word set
ILO_DIRTY_ALL ==
  {"BLEND", "FRAGMENT_SAMPLERS", "VERTEX_SAMPLERS", "GEOMETRY_SAMPLERS",
   "COMPUTE_SAMPLERS", "RASTERIZER", "DEPTH_STENCIL_ALPHA", "FS", "VS", "GS",
   "VERTEX_ELEMENTS", "BLEND_COLOR", "STENCIL_REF", "SAMPLE_MASK", "CLIP",
   "CONSTANT_BUFFER", "FRAMEBUFFER", "POLY_STIPPLE", "SCISSOR", "VIEWPORT",
   "FRAGMENT_SAMPLER_VIEWS", "VERTEX_SAMPLER_VIEWS", "GEOMETRY_SAMPLER_VIEWS",
   "COMPUTE_SAMPLER_VIEWS", "SHADER_RESOURCES", "VERTEX_BUFFERS",
   "INDEX_BUFFER", "STREAM_OUTPUT_TARGETS", "COMPUTE", "COMPUTE_RESOURCES",
   "GLOBAL_BINDING"}

(***************************************************************************)
(* Handles the client owns.                                                *)
(***************************************************************************)
\* sampler CSOs returned by ilo_create_sampler_state
Samplers == {"S1", "S2"}
\* pipe_resources: two buffers (target == PIPE_BUFFER) and two textures
Buffers == {"B1", "B2"}
Textures == {"T1", "T2"}
Resources == Buffers \cup Textures
\* sampler views: one of buffer B1, one of texture T1
Views == {"VB", "VT"}
\* pipe_surfaces: one of texture T1, one of texture T2
Surfaces == {"F1", "F2"}
\* stream-output targets: one over buffer B1, one over texture T1
Targets == {"O1", "O2"}
\* the buffer the upload manager stages into
UploadBuffer == "UP"
\* the reference-counted objects
Objects == Resources \cup Views \cup Surfaces \cup Targets \cup {UploadBuffer}
\* client memory: a constant-buffer span and an index array
UserSpans == {"U1"}

\* pipe_sampler_view::texture, set by ilo_create_sampler_view
ViewTexture(v) == IF v = "VT" THEN "T1" ELSE "B1"
\* pipe_surface::texture, set by ilo_create_surface
SurfaceTexture(f) == IF f = "F1" THEN "T1" ELSE "T2"
\* pipe_stream_output_target::buffer, set by ilo_create_stream_output_target
TargetBuffer(t) == IF t = "O1" THEN "B1" ELSE "T1"
\* res->target == PIPE_BUFFER
IsBuffer(r) == r \in Buffers \cup {UploadBuffer}
\* pipe_resource::nr_samples
NrSamples(r) == IF r = "T2" THEN 4 ELSE 0

Slots == 0..(MaxSlots - 1)
BufferSlots == 0..(MaxBuffers - 1)

VARIABLES
  dirty,           \* ilo->dirty, as the set of bits that are set
  sampler,         \* ilo->sampler[sh]: cso[], count
  view,            \* ilo->view[sh]: states[], count
  resource,        \* ilo->resource: states[], count
  cs_resource,     \* ilo->cs_resource: states[], count
  global_binding,  \* ilo->global_binding: resources[], count
  cbuf,            \* ilo->cbuf[sh]: cso[], enabled_mask, count
  vb,              \* ilo->vb: states[], enabled_mask
  ib,              \* ilo->ib: state, resource, draw_start_offset
  so,              \* ilo->so: states[], count, append_bitmask, enabled
  fb,              \* ilo->fb: state, num_samples
  cso,             \* ilo->blend, rasterizer, dsa, fs, vs, gs, ve, cs
  param,           \* ilo->blend_color, stencil_ref, sample_mask, clip, ...
  viewport,        \* ilo->viewport: cso[], count, viewport0
  draw,            \* ilo->draw and the pipe_draw_info it points to
  calls,           \* the collaborator calls of the last finalize, in order
  crashed,         \* the process was aborted (failed assert, fault)
  op,              \* the last call made on the context
  refs,            \* the references the context holds on each object
  workload         \* what the client of this context calls

slotVars == <<sampler, view, resource, cs_resource, global_binding>>
bufVars == <<cbuf, vb, ib, so, fb>>
csoVars == <<cso, param, viewport>>
drawVars == <<draw, calls>>

vars ==
  <<dirty, slotVars, bufVars, csoVars, drawVars, crashed, op, refs, workload>>

\* the context exists: the process was not aborted and ilo_cleanup_states
\* has not torn it down
Live == ~crashed /\ op.name # "cleanup_states"

Uses(entry) == Live /\ entry \in workload.entries

\* arrays of n handles out of H, or a NULL array pointer
Arrays(H, n) == [1..n -> H \cup {NULL}] \cup {NoArray}

\* (start, count) arguments of a call, a range past the capacity included
Ranges == {r \in (0..MaxSlots) \X (0..MaxBind) : r[1] + r[2] <= MaxSlots + 1}
\* those the client of this context passes
ClientRanges == {r \in Ranges : r[1] + r[2] <= workload.slots}
ClientCounts == {n \in 0..MaxBind : n <= workload.slots}

(***************************************************************************)
(* Slot arrays.                                                            *)
(***************************************************************************)
EmptyArray == [states |-> [i \in Slots |-> NULL], count |-> 0]

\* a faulty variant: the count is not trimmed
NoTrim(states, count) == count

\* while (count > 0 && !states[count - 1]) count--;
RECURSIVE TrimCount(_, _)
TrimCount(states, count) ==
  IF count > 0 /\ states[count - 1] = NULL
    THEN TrimCount(states, count - 1)
    ELSE count

\* a faulty variant: the slots outside the range are left as they are
ReplaceWithoutClearing(a, start0, count0, handles) ==
  LET start == IF handles = NoArray THEN 0 ELSE start0
      count == IF handles = NoArray THEN 0 ELSE count0
  IN  [states |-> [i \in Slots |->
                     IF i >= start /\ i < start + count
                       THEN handles[i - start + 1] ELSE a.states[i]],
       count |-> start + count]

\* the unbind_old / unset_old branch of bind_samplers and set_sampler_views
ReplaceRange(a, start0, count0, handles) ==
  LET start == IF handles = NoArray THEN 0 ELSE start0
      count == IF handles = NoArray THEN 0 ELSE count0
  IN  [states |-> [i \in Slots |->
                     IF i < start THEN NULL
                     ELSE IF i < start + count THEN handles[i - start + 1]
                     ELSE IF i < a.count THEN NULL
                     ELSE a.states[i]],
       count |-> start + count]

\* a faulty variant: the slots below the range are emptied
SparseUpdateClearingBelow(a, start, count, handles) ==
  LET states == [i \in Slots |->
                   IF i < start THEN NULL
                   ELSE IF i < start + count
                     THEN IF handles = NoArray THEN NULL
                          ELSE handles[i - start + 1]
                     ELSE a.states[i]]
  IN  [states |-> states,
       count |-> IF a.count <= start + count
                   THEN TrimCount(states, start + count)
                   ELSE a.count]

\* the branch without unbind_old: write [start, start + count), then trim
SparseUpdate(a, start, count, handles) ==
  LET states == [i \in Slots |->
                   IF i >= start /\ i < start + count
                     THEN IF handles = NoArray THEN NULL
                          ELSE handles[i - start + 1]
                     ELSE a.states[i]]
  IN  [states |-> states,
       count |-> IF a.count <= start + count
                   THEN TrimCount(states, start + count)
                   ELSE a.count]

bind_samplers(a, start, count, samplers, unbind_old) ==
  IF unbind_old THEN ReplaceRange(a, start, count, samplers)
                ELSE SparseUpdate(a, start, count, samplers)

(***************************************************************************)
(* Construction.                                                           *)
(***************************************************************************)
EmptyCbufCso ==
  [resource |-> NULL, user_buffer |-> NULL, user_buffer_size |-> 0,
   surface |-> [bo |-> NULL, offset |-> 0, size |-> 0]]

EmptyCbuf ==
  [cso |-> [i \in BufferSlots |-> EmptyCbufCso], enabled_mask |-> {},
   count |-> 0]

EmptyIb ==
  [state |-> [buffer |-> NULL, offset |-> 0, index_size |-> 0,
              user_buffer |-> NULL],
   resource |-> NULL, draw_start_offset |-> 0]

NoDraw == [null |-> TRUE]

\* ilo_init_states on a zeroed context
Constructed ==
  /\ dirty = ILO_DIRTY_ALL
  /\ sampler = [sh \in Shaders |-> EmptyArray]
  /\ view = [sh \in Shaders |-> EmptyArray]
  /\ resource = EmptyArray
  /\ cs_resource = EmptyArray
  /\ global_binding = EmptyArray
  /\ cbuf = [sh \in Shaders |-> EmptyCbuf]
  /\ vb = [states |-> [i \in BufferSlots |-> NULL], enabled_mask |-> {}]
  /\ ib = EmptyIb
  /\ so = [states |-> [i \in Slots |-> NULL], count |-> 0,
           append_bitmask |-> 0, enabled |-> FALSE]
  /\ fb = [state |-> [nr_cbufs |-> 0, cbufs |-> [i \in Slots |-> NULL],
                      zsbuf |-> NULL],
           num_samples |-> 0]
  /\ cso = [f \in {"blend", "rasterizer", "dsa", "fs", "vs", "gs", "ve", "cs"}
              |-> NULL]
  /\ param = [f \in {"blend_color", "stencil_ref", "sample_mask", "clip",
                     "poly_stipple", "scissor"} |-> "P0"]
  /\ viewport = [cso |-> [i \in Slots |-> NULL], count |-> 0,
                 viewport0 |-> NULL]
  /\ draw = NoDraw
  /\ calls = <<>>
  /\ crashed = FALSE
  /\ op = [name |-> "ilo_init_states"]
  /\ refs = [h \in Objects |-> 0]

(***************************************************************************)
(* Reference counting.  Every pointer the context keeps to a resource, a   *)
(* sampler view, a surface or a stream-output target is written with       *)
(* pipe_*_reference(&slot, new), which acquires new and releases what the  *)
(* slot pointed to.                                                        *)
(***************************************************************************)
Max(a, b) == IF a > b THEN a ELSE b

ViewSlots(sh, S) == {<<"view", sh, i>> : i \in S \cap Slots}
ArraySlots(cat, S) == {<<cat, "-", i>> : i \in S \cap Slots}
CbufSlots(sh, S) == {<<"cbuf", sh, i>> : i \in S \cap BufferSlots}
VbSlots(S) == {<<"vb", "-", i>> : i \in S \cap BufferSlots}
IbSlots == {<<"ib.state.buffer", "-", 0>>, <<"ib.resource", "-", 0>>}
FbSlots(S) == {<<"fb.cbufs", "-", i>> : i \in S \cap Slots}
ZsSlot == {<<"fb.zsbuf", "-", 0>>}

\* every pointer of the context to a reference-counted object
RefSlots ==
  UNION {ViewSlots(sh, Slots) \cup CbufSlots(sh, BufferSlots) : sh \in Shaders}
    \cup ArraySlots("resource", Slots) \cup ArraySlots("cs_resource", Slots)
    \cup ArraySlots("global_binding", Slots) \cup ArraySlots("so", Slots)
    \cup VbSlots(BufferSlots) \cup IbSlots \cup FbSlots(Slots) \cup ZsSlot

\* the pointer in slot s
Ptr(s) ==
  CASE s[1] = "view" -> view[s[2]].states[s[3]]
    [] s[1] = "cbuf" -> cbuf[s[2]].cso[s[3]].resource
    [] s[1] = "resource" -> resource.states[s[3]]
    [] s[1] = "cs_resource" -> cs_resource.states[s[3]]
    [] s[1] = "global_binding" -> global_binding.states[s[3]]
    [] s[1] = "so" -> so.states[s[3]]
    [] s[1] = "vb" -> vb.states[s[3]]
    [] s[1] = "ib.state.buffer" -> ib.state.buffer
    [] s[1] = "ib.resource" -> ib.resource
    [] s[1] = "fb.cbufs" -> fb.state.cbufs[s[3]]
    [] s[1] = "fb.zsbuf" -> fb.state.zsbuf

\* a faulty variant: the previous occupant of a slot is not released
ReferencedWithoutRelease(S, old, new) ==
  \E changed \in {{i \in S : old[i] # new[i]}} :
    refs' = [h \in Objects |->
               refs[h] + Cardinality({i \in changed : new[i] = h})]

\* the call passed the slots S to pipe_*_reference; old and new are the
\* pointers in them before and after: each slot whose pointer changes
\* acquires the new object and releases the previous one
Referenced(S, old, new) ==
  \E changed \in {{i \in S : old[i] # new[i]}} :
    IF changed = {} THEN UNCHANGED refs
    ELSE refs' = [h \in Objects |->
                    refs[h] + Cardinality({i \in changed : new[i] = h})
                            - Cardinality({i \in changed : old[i] = h})]

\* the slots [from, to) of a slot array
Range(from, to) == {i \in Slots : from <= i /\ i < to}

\* a faulty variant: ilo->dirty ^= bits
MarkedToggle(word, bits) == (word \ bits) \cup (bits \ word)

\* the flag word after  word |= bits
Marked(word, bits) == word \cup bits

\* a faulty variant: ilo->dirty = bits
MarkAssign(bits) == dirty' = bits

\* ilo->dirty |= bits
Mark(bits) == dirty' = Marked(dirty, bits)

\* the record of a call
Call(entry) == [name |-> entry]

\* a call returns: it made no collaborator call
Return(entry) ==
  /\ op' = Call(entry)
  /\ calls' = <<>>
  /\ UNCHANGED <<draw, crashed, workload>>

\* a failed assert(): the process aborts where it stands
Abort(entry) ==
  /\ crashed' = TRUE
  /\ op' = Call(entry)
  /\ calls' = <<>>
  /\ UNCHANGED <<dirty, slotVars, bufVars, csoVars, draw, workload>>

(***************************************************************************)
(* State objects bound by pointer and parameters set by value.             *)
(***************************************************************************)
CsoHandles == {NULL, "X1"}
ParamValues == {"P1", "P2"}

\* a faulty variant: the bind returns early when the state is already bound
BindCsoIfChanged(entry, field, state, bit) ==
  /\ Uses(entry)
  /\ cso' = [cso EXCEPT ![field] = state]
  /\ IF cso[field] = state THEN UNCHANGED dirty ELSE Mark({bit})
  /\ Return(entry)
  /\ UNCHANGED <<slotVars, bufVars, param, viewport, refs>>

BindCso(entry, field, state, bit) ==
  /\ Uses(entry)
  /\ cso' = [cso EXCEPT ![field] = state]
  /\ Mark({bit})
  /\ Return(entry)
  /\ UNCHANGED <<slotVars, bufVars, param, viewport, refs>>

SetParam(entry, field, state, bit) ==
  /\ Uses(entry)
  /\ param' = [param EXCEPT ![field] = state]
  /\ Mark({bit})
  /\ Return(entry)
  /\ UNCHANGED <<slotVars, bufVars, cso, viewport, refs>>

ilo_bind_blend_state ==
  \E state \in CsoHandles :
    BindCso("bind_blend_state", "blend", state, "BLEND")

ilo_bind_rasterizer_state ==
  \E state \in CsoHandles :
    BindCso("bind_rasterizer_state", "rasterizer", state, "RASTERIZER")

ilo_bind_depth_stencil_alpha_state ==
  \E state \in CsoHandles :
    BindCso("bind_depth_stencil_alpha_state", "dsa", state,
            "DEPTH_STENCIL_ALPHA")

ilo_bind_fs_state ==
  \E state \in CsoHandles : BindCso("bind_fs_state", "fs", state, "FS")

ilo_bind_vs_state ==
  \E state \in CsoHandles : BindCso("bind_vs_state", "vs", state, "VS")

ilo_bind_gs_state ==
  \E state \in CsoHandles : BindCso("bind_gs_state", "gs", state, "GS")

ilo_bind_vertex_elements_state ==
  \E state \in CsoHandles :
    BindCso("bind_vertex_elements_state", "ve", state, "VERTEX_ELEMENTS")

ilo_bind_compute_state ==
  \E state \in CsoHandles :
    BindCso("bind_compute_state", "cs", state, "COMPUTE")

ilo_set_blend_color ==
  \E state \in ParamValues :
    SetParam("set_blend_color", "blend_color", state, "BLEND_COLOR")

ilo_set_stencil_ref ==
  \E state \in ParamValues :
    SetParam("set_stencil_ref", "stencil_ref", state, "STENCIL_REF")

ilo_set_sample_mask ==
  \E sample_mask \in ParamValues :
    SetParam("set_sample_mask", "sample_mask", sample_mask, "SAMPLE_MASK")

ilo_set_clip_state ==
  \E state \in ParamValues : SetParam("set_clip_state", "clip", state, "CLIP")

ilo_set_polygon_stipple ==
  \E state \in ParamValues :
    SetParam("set_polygon_stipple", "poly_stipple", state, "POLY_STIPPLE")

\* ilo_gpe_set_scissor rewrites ilo->scissor from the scissors given
ilo_set_scissor_states ==
  \E scissors \in ParamValues :
    SetParam("set_scissor_states", "scissor", scissors, "SCISSOR")

(***************************************************************************)
(* Viewports.                                                              *)
(***************************************************************************)
ViewportValues == {"W1", "W2"}

\* the viewports after the call; a slot past the array is not part of them
SetViewportCsos(start_slot, num_viewports, viewports) ==
  IF viewports # NoArray
    THEN [cso |-> [i \in Slots |->
                     IF i >= start_slot /\ i < start_slot + num_viewports
                       THEN viewports[i - start_slot + 1]
                       ELSE viewport.cso[i]],
          count |-> IF viewport.count < start_slot + num_viewports
                      THEN start_slot + num_viewports
                      ELSE viewport.count,
          viewport0 |-> IF start_slot = 0 /\ num_viewports > 0
                          THEN viewports[1]
                          ELSE viewport.viewport0]
    ELSE [viewport EXCEPT !.count =
            IF @ <= start_slot + num_viewports /\ @ > start_slot
              THEN start_slot ELSE @]

\* the outcomes of the loop that fills cso[start_slot + i]: it has no
\* check against the capacity, and a write past the array is undefined (it
\* faults, or lands in the fields that follow and the call goes on)
ViewportOutcomes(start_slot, num_viewports, viewports) ==
  IF viewports # NoArray /\ start_slot + num_viewports > MaxSlots
    THEN {"fault", "written"} ELSE {"written"}

SetViewportStates(start_slot, num_viewports, viewports, outcome) ==
  /\ Uses("set_viewport_states")
  /\ viewport' = SetViewportCsos(start_slot, num_viewports, viewports)
  /\ IF outcome = "fault"
       THEN /\ crashed' = TRUE
            /\ op' = Call("set_viewport_states")
            /\ calls' = <<>>
            /\ UNCHANGED <<dirty, draw, workload>>
       ELSE /\ Mark({"VIEWPORT"})
            /\ Return("set_viewport_states")
  /\ UNCHANGED <<slotVars, bufVars, cso, param, refs>>

ilo_set_viewport_states ==
  /\ Uses("set_viewport_states")
  /\ \E r \in ClientRanges :
       \E viewports \in [1..r[2] -> ViewportValues] \cup {NoArray} :
         \E outcome \in ViewportOutcomes(r[1], r[2], viewports) :
           SetViewportStates(r[1], r[2], viewports, outcome)

(***************************************************************************)
(* Samplers.                                                               *)
(***************************************************************************)
BindSamplerStates(entry, sh, start, count, samplers, unbind_old, bit) ==
  /\ Uses(entry)
  /\ IF start + count <= MaxSlots
       THEN /\ sampler' = [sampler EXCEPT ![sh] =
                             bind_samplers(@, start, count, samplers, unbind_old)]
            /\ Mark({bit})
            /\ Return(entry)
            /\ UNCHANGED <<view, resource, cs_resource, global_binding,
                           bufVars, csoVars>>
       ELSE Abort(entry)
  /\ UNCHANGED refs

BindFragmentSamplerStates(num_samplers, samplers) ==
  BindSamplerStates("bind_fragment_sampler_states", "FRAGMENT",
                    0, num_samplers, samplers, TRUE, "FRAGMENT_SAMPLERS")

BindVertexSamplerStates(num_samplers, samplers) ==
  BindSamplerStates("bind_vertex_sampler_states", "VERTEX",
                    0, num_samplers, samplers, TRUE, "VERTEX_SAMPLERS")

BindGeometrySamplerStates(num_samplers, samplers) ==
  BindSamplerStates("bind_geometry_sampler_states", "GEOMETRY",
                    0, num_samplers, samplers, TRUE, "GEOMETRY_SAMPLERS")

BindComputeSamplerStates(start_slot, num_samplers, samplers) ==
  BindSamplerStates("bind_compute_sampler_states", "COMPUTE",
                    start_slot, num_samplers, samplers, FALSE,
                    "COMPUTE_SAMPLERS")

ilo_bind_fragment_sampler_states ==
  /\ Uses("bind_fragment_sampler_states")
  /\ \E n \in ClientCounts : \E samplers \in Arrays(Samplers, n) :
       BindFragmentSamplerStates(n, samplers)

ilo_bind_vertex_sampler_states ==
  /\ Uses("bind_vertex_sampler_states")
  /\ \E n \in ClientCounts : \E samplers \in Arrays(Samplers, n) :
       BindVertexSamplerStates(n, samplers)

ilo_bind_geometry_sampler_states ==
  /\ Uses("bind_geometry_sampler_states")
  /\ \E n \in ClientCounts : \E samplers \in Arrays(Samplers, n) :
       BindGeometrySamplerStates(n, samplers)

ilo_bind_compute_sampler_states ==
  /\ Uses("bind_compute_sampler_states")
  /\ \E r \in ClientRanges : \E samplers \in Arrays(Samplers, r[2]) :
       BindComputeSamplerStates(r[1], r[2], samplers)

(***************************************************************************)
(* Sampler views.                                                          *)
(***************************************************************************)
set_sampler_views(a, start, count, views, unset_old) ==
  IF unset_old THEN ReplaceRange(a, start, count, views)
               ELSE SparseUpdate(a, start, count, views)

SetSamplerViews(entry, sh, start, count, views, unset_old, bit) ==
  /\ Uses(entry)
  /\ IF start + count <= MaxSlots
       THEN /\ view' = [view EXCEPT ![sh] =
                          set_sampler_views(@, start, count, views, unset_old)]
            /\ Mark({bit})
            /\ Return(entry)
            /\ UNCHANGED <<sampler, resource, cs_resource, global_binding,
                           bufVars, csoVars>>
       ELSE Abort(entry)
  /\ Referenced(IF ~unset_old THEN Range(start, start + count)
                ELSE IF views = NoArray THEN Range(0, view[sh].count)
                ELSE Range(0, Max(start + count, view[sh].count)),
                view[sh].states, view'[sh].states)

SetFragmentSamplerViews(num_views, views) ==
  SetSamplerViews("set_fragment_sampler_views", "FRAGMENT",
                  0, num_views, views, TRUE, "FRAGMENT_SAMPLER_VIEWS")

SetVertexSamplerViews(num_views, views) ==
  SetSamplerViews("set_vertex_sampler_views", "VERTEX",
                  0, num_views, views, TRUE, "VERTEX_SAMPLER_VIEWS")

SetGeometrySamplerViews(num_views, views) ==
  SetSamplerViews("set_geometry_sampler_views", "GEOMETRY",
                  0, num_views, views, TRUE, "GEOMETRY_SAMPLER_VIEWS")

SetComputeSamplerViews(start_slot, num_views, views) ==
  SetSamplerViews("set_compute_sampler_views", "COMPUTE",
                  start_slot, num_views, views, FALSE,
                  "COMPUTE_SAMPLER_VIEWS")

ilo_set_fragment_sampler_views ==
  /\ Uses("set_fragment_sampler_views")
  /\ \E n \in ClientCounts : \E views \in Arrays(Views, n) :
       SetFragmentSamplerViews(n, views)

ilo_set_vertex_sampler_views ==
  /\ Uses("set_vertex_sampler_views")
  /\ \E n \in ClientCounts : \E views \in Arrays(Views, n) :
       SetVertexSamplerViews(n, views)

ilo_set_geometry_sampler_views ==
  /\ Uses("set_geometry_sampler_views")
  /\ \E n \in ClientCounts : \E views \in Arrays(Views, n) :
       SetGeometrySamplerViews(n, views)

ilo_set_compute_sampler_views ==
  /\ Uses("set_compute_sampler_views")
  /\ \E r \in ClientRanges : \E views \in Arrays(Views, r[2]) :
       SetComputeSamplerViews(r[1], r[2], views)

(***************************************************************************)
(* Shader resources, compute resources, global bindings.                   *)
(***************************************************************************)
SetShaderResources(start, count, surfaces) ==
  /\ Uses("set_shader_resources")
  /\ IF start + count <= MaxSlots
       THEN /\ resource' = SparseUpdate(resource, start, count, surfaces)
            /\ Mark({"SHADER_RESOURCES"})
            /\ Return("set_shader_resources")
            /\ UNCHANGED <<sampler, view, cs_resource, global_binding,
                           bufVars, csoVars>>
       ELSE Abort("set_shader_resources")
  /\ Referenced(Range(start, start + count), resource.states, resource'.states)

ilo_set_shader_resources ==
  /\ Uses("set_shader_resources")
  /\ \E r \in ClientRanges : \E surfaces \in Arrays(Surfaces, r[2]) :
       SetShaderResources(r[1], r[2], surfaces)

SetComputeResources(start, count, surfaces) ==
  /\ Uses("set_compute_resources")
  /\ IF start + count <= MaxSlots
       THEN /\ cs_resource' = SparseUpdate(cs_resource, start, count, surfaces)
            /\ Mark({"COMPUTE_RESOURCES"})
            /\ Return("set_compute_resources")
            /\ UNCHANGED <<sampler, view, resource, global_binding,
                           bufVars, csoVars>>
       ELSE Abort("set_compute_resources")
  /\ Referenced(Range(start, start + count), cs_resource.states, cs_resource'.states)

ilo_set_compute_resources ==
  /\ Uses("set_compute_resources")
  /\ \E r \in ClientRanges : \E surfaces \in Arrays(Surfaces, r[2]) :
       SetComputeResources(r[1], r[2], surfaces)

\* the resources a client binds globally
GlobalResources == {"B1", "T1"}

SetGlobalBinding(start, count, resources) ==
  /\ Uses("set_global_binding")
  /\ IF start + count <= MaxSlots
       THEN /\ global_binding' =
                 SparseUpdate(global_binding, start, count, resources)
            /\ Mark({"GLOBAL_BINDING"})
            /\ Return("set_global_binding")
            /\ UNCHANGED <<sampler, view, resource, cs_resource,
                           bufVars, csoVars>>
       ELSE Abort("set_global_binding")
  /\ Referenced(Range(start, start + count), global_binding.states, global_binding'.states)

ilo_set_global_binding ==
  /\ Uses("set_global_binding")
  /\ \E r \in ClientRanges : \E resources \in Arrays(GlobalResources, r[2]) :
       SetGlobalBinding(r[1], r[2], resources)

(***************************************************************************)
(* Constant buffers.                                                       *)
(***************************************************************************)
\* a NULL pointer passed where a state structure is expected
NoState == [null |-> TRUE]

\* struct pipe_constant_buffer as the client fills it
CbufStates ==
  [buffer : {NULL, "B1"}, buffer_offset : {0}, buffer_size : {16},
   user_buffer : {NULL} \cup UserSpans]

\* ilo_gpe_init_view_surface_for_buffer: the view of [offset, offset + size)
ViewSurfaceForBuffer(buf, offset, size) ==
  [bo |-> buf, offset |-> offset, size |-> size]

\* a faulty variant: a client span leaves the slot's resource in place
SetCbufCsoKeepingResource(c, state) ==
  IF state = NoState
    THEN [resource |-> NULL, user_buffer |-> NULL, user_buffer_size |-> 0,
          surface |-> [c.surface EXCEPT !.bo = NULL]]
    ELSE IF state.buffer # NULL
      THEN [resource |-> state.buffer, user_buffer |-> NULL,
            user_buffer_size |-> 0,
            surface |-> ViewSurfaceForBuffer(state.buffer, state.buffer_offset,
                                             state.buffer_size)]
      ELSE [resource |-> c.resource, user_buffer |-> state.user_buffer,
            user_buffer_size |-> state.buffer_size,
            surface |-> [c.surface EXCEPT !.bo = NULL]]

\* the constant buffer slot after ilo_set_constant_buffer
SetCbufCso(c, state) ==
  IF state = NoState
    THEN [resource |-> NULL, user_buffer |-> NULL, user_buffer_size |-> 0,
          surface |-> [c.surface EXCEPT !.bo = NULL]]
    ELSE IF state.buffer # NULL
      THEN [resource |-> state.buffer, user_buffer |-> NULL,
            user_buffer_size |-> 0,
            surface |-> ViewSurfaceForBuffer(state.buffer, state.buffer_offset,
                                             state.buffer_size)]
      ELSE [resource |-> NULL, user_buffer |-> state.user_buffer,
            user_buffer_size |-> state.buffer_size,
            surface |-> [c.surface EXCEPT !.bo = NULL]]

SetConstantBuffer(shader, index, state) ==
  /\ Uses("set_constant_buffer")
  /\ IF index >= MaxBuffers
       THEN Abort("set_constant_buffer")
       ELSE IF state # NoState /\ state.buffer = NULL /\ state.user_buffer = NULL
         \* assert(state->user_buffer) fails after the resource was released
         THEN /\ cbuf' = [cbuf EXCEPT ![shader].cso[index].resource = NULL]
              /\ crashed' = TRUE
              /\ op' = Call("set_constant_buffer")
              /\ calls' = <<>>
              /\ UNCHANGED <<dirty, slotVars, vb, ib, so, fb, csoVars, draw,
                             workload>>
         ELSE /\ cbuf' = [cbuf EXCEPT
                   ![shader].cso[index] = SetCbufCso(@, state),
                   ![shader].enabled_mask =
                     IF state # NoState THEN @ \cup {index} ELSE @ \ {index}]
              /\ Mark({"CONSTANT_BUFFER"})
              /\ Return("set_constant_buffer")
              /\ UNCHANGED <<slotVars, vb, ib, so, fb, csoVars>>
  /\ Referenced({index} \cap BufferSlots,
                [i \in BufferSlots |-> cbuf[shader].cso[i].resource],
                [i \in BufferSlots |-> cbuf'[shader].cso[i].resource])

ilo_set_constant_buffer ==
  /\ Uses("set_constant_buffer")
  /\ \E shader \in workload.shaders :
       \E index \in {i \in 0..MaxBuffers : i <= workload.slots} :
         \E state \in CbufStates \cup {NoState} :
           SetConstantBuffer(shader, index, state)

(***************************************************************************)
(* Framebuffer.                                                            *)
(***************************************************************************)
\* struct pipe_framebuffer_state as the client fills it
FramebufferStates ==
  UNION {[nr_cbufs : {n}, cbufs : [1..n -> Surfaces],
          zsbuf : Surfaces \cup {NULL}] : n \in ClientCounts}

\* util_copy_framebuffer_state
CopyFramebufferState(state) ==
  [nr_cbufs |-> state.nr_cbufs,
   cbufs |-> [i \in Slots |->
                IF i < state.nr_cbufs THEN state.cbufs[i + 1] ELSE NULL],
   zsbuf |-> state.zsbuf]

SetFramebufferState(state) ==
  LET samples ==
        IF state.nr_cbufs # 0
          THEN NrSamples(SurfaceTexture(state.cbufs[1]))
          ELSE IF state.zsbuf # NULL
            THEN NrSamples(SurfaceTexture(state.zsbuf))
            ELSE 1
  IN  /\ Uses("set_framebuffer_state")
      /\ fb' = [state |-> CopyFramebufferState(state),
                num_samples |-> IF samples = 0 THEN 1 ELSE samples]
      /\ Mark({"FRAMEBUFFER"})
      /\ Return("set_framebuffer_state")
      /\ UNCHANGED <<slotVars, cbuf, vb, ib, so, csoVars>>
      /\ Referenced(0..MaxSlots,
                    [i \in 0..MaxSlots |-> IF i < MaxSlots THEN fb.state.cbufs[i]
                                           ELSE fb.state.zsbuf],
                    [i \in 0..MaxSlots |-> IF i < MaxSlots THEN fb'.state.cbufs[i]
                                           ELSE fb'.state.zsbuf])

ilo_set_framebuffer_state ==
  /\ Uses("set_framebuffer_state")
  /\ \E state \in FramebufferStates : SetFramebufferState(state)

(***************************************************************************)
(* Vertex buffers, index buffer, stream-output targets.                    *)
(***************************************************************************)
\* the resources a client binds as vertex buffers (none is a user buffer)
VbResources == {"B1", "T1"}

\* util_set_vertex_buffers_mask
SetVertexBuffersMask(v, src, start_slot, count) ==
  LET range == {i \in BufferSlots : i >= start_slot /\ i < start_slot + count}
  IN  IF src # NoArray
        THEN [states |-> [i \in BufferSlots |->
                            IF i \in range THEN src[i - start_slot + 1]
                                           ELSE v.states[i]],
              enabled_mask |->
                (v.enabled_mask \ range)
                  \cup {i \in range : src[i - start_slot + 1] # NULL}]
        ELSE [states |-> [i \in BufferSlots |->
                            IF i \in range THEN NULL ELSE v.states[i]],
              enabled_mask |-> v.enabled_mask \ range]

SetVertexBuffers(start_slot, num_buffers, buffers) ==
  /\ Uses("set_vertex_buffers")
  /\ vb' = SetVertexBuffersMask(vb, buffers, start_slot, num_buffers)
  /\ Mark({"VERTEX_BUFFERS"})
  /\ Return("set_vertex_buffers")
  /\ UNCHANGED <<slotVars, cbuf, ib, so, fb, csoVars>>
  /\ Referenced({i \in BufferSlots :
                   start_slot <= i /\ i < start_slot + num_buffers},
                vb.states, vb'.states)

ilo_set_vertex_buffers ==
  /\ Uses("set_vertex_buffers")
  /\ \E r \in {q \in ClientRanges : q[1] + q[2] <= MaxBuffers} :
       \E buffers \in Arrays(VbResources, r[2]) :
         SetVertexBuffers(r[1], r[2], buffers)

\* unsigned division and remainder
UDiv(a, b) == a \div b
UMod(a, b) == a % b

\* struct pipe_index_buffer as the client fills it: the indices are in a
\* buffer, in client memory, or nowhere
IndexBufferStates ==
  {s \in [buffer : {NULL, "B1"}, offset : 0..MaxOffset, index_size : {1, 2, 4},
          user_buffer : {NULL} \cup UserSpans] :
     s.buffer = NULL \/ s.user_buffer = NULL}

SetIndexBuffer(state) ==
  /\ Uses("set_index_buffer")
  /\ ib' = IF state # NoState
             THEN [state |-> [buffer |-> state.buffer,
                              offset |-> state.offset,
                              index_size |-> state.index_size,
                              user_buffer |-> state.user_buffer],
                   resource |-> state.buffer,
                   draw_start_offset |-> UDiv(state.offset, state.index_size)]
             ELSE EmptyIb
  /\ Mark({"INDEX_BUFFER"})
  /\ Return("set_index_buffer")
  /\ UNCHANGED <<slotVars, cbuf, vb, so, fb, csoVars>>
  /\ Referenced({1, 2}, <<ib.state.buffer, ib.resource>>,
                <<ib'.state.buffer, ib'.resource>>)

ilo_set_index_buffer ==
  /\ Uses("set_index_buffer")
  /\ \E state \in IndexBufferStates \cup {NoState} : SetIndexBuffer(state)

SetStreamOutputTargets(num_targets0, targets, append_bitmask) ==
  LET num_targets == IF targets = NoArray THEN 0 ELSE num_targets0
  IN  /\ Uses("set_stream_output_targets")
      /\ so' = [states |-> [i \in Slots |->
                              IF i < num_targets THEN targets[i + 1]
                              ELSE IF i < so.count THEN NULL
                              ELSE so.states[i]],
                count |-> num_targets,
                append_bitmask |-> append_bitmask,
                enabled |-> num_targets > 0]
      /\ Mark({"STREAM_OUTPUT_TARGETS"})
      /\ Return("set_stream_output_targets")
      /\ UNCHANGED <<slotVars, cbuf, vb, ib, fb, csoVars>>
      /\ Referenced(Range(0, Max(num_targets, so.count)),
                    so.states, so'.states)

ilo_set_stream_output_targets ==
  /\ Uses("set_stream_output_targets")
  /\ \E n \in ClientCounts : \E targets \in Arrays(Targets, n) :
       SetStreamOutputTargets(n, targets, 0)

(***************************************************************************)
(* ilo_mark_states_with_resource_dirty.                                    *)
(***************************************************************************)
\* the outcomes of   for (i = 0; i < count; i++)
\*                     if (states[i]->texture == res) { ...; break; }
\* over the underlying resources texs[i] of the slots, NULL for an empty
\* slot: reading through a NULL slot is undefined (it faults, or the value
\* read compares either way)
RECURSIVE ScanOutcomes(_, _, _, _)
ScanOutcomes(texs, count, i, res) ==
  IF i >= count THEN {"nomatch"}
  ELSE IF texs[i] = NULL
    THEN {"fault", "match"} \cup ScanOutcomes(texs, count, i + 1, res)
  ELSE IF texs[i] = res THEN {"match"}
  ELSE ScanOutcomes(texs, count, i + 1, res)

\* the compute-resource loop releases slot i before it reads through it:
\* every iteration reads through NULL. released is the number of slots the
\* loop has cleared when it ends.
RECURSIVE CsScanOutcomes(_, _)
CsScanOutcomes(count, i) ==
  IF i >= count THEN {[result |-> "nomatch", released |-> count]}
  ELSE {[result |-> "fault", released |-> i + 1],
        [result |-> "match", released |-> i + 1]}
         \cup CsScanOutcomes(count, i + 1)

ViewTextures(sh) ==
  [i \in Slots |-> IF view[sh].states[i] = NULL THEN NULL
                   ELSE ViewTexture(view[sh].states[i])]
SurfaceTextures(a) ==
  [i \in Slots |-> IF a.states[i] = NULL THEN NULL
                   ELSE SurfaceTexture(a.states[i])]
TargetBuffers ==
  [i \in Slots |-> IF so.states[i] = NULL THEN NULL
                   ELSE TargetBuffer(so.states[i])]

VbOutcome(res) ==
  IF IsBuffer(res) /\ \E idx \in vb.enabled_mask : vb.states[idx] = res
    THEN "match" ELSE "nomatch"
IbOutcome(res) ==
  IF IsBuffer(res) /\ ib.state.buffer = res THEN "match" ELSE "nomatch"
SoOutcomes(res) ==
  IF IsBuffer(res) THEN ScanOutcomes(TargetBuffers, so.count, 0, res)
                   ELSE {"nomatch"}
ViewOutcomes(sh, res) == ScanOutcomes(ViewTextures(sh), view[sh].count, 0, res)
CbufOutcome(res) ==
  IF IsBuffer(res) /\ \E sh \in Shaders : \E i \in BufferSlots :
                        cbuf[sh].cso[i].resource = res
    THEN "match" ELSE "nomatch"
ResourceOutcomes(res) ==
  ScanOutcomes(SurfaceTextures(resource), resource.count, 0, res)
FbOutcome(res) ==
  IF /\ ~IsBuffer(res)
     /\ \/ \E i \in Slots : /\ i < fb.state.nr_cbufs
                            /\ SurfaceTexture(fb.state.cbufs[i]) = res
        \/ /\ fb.state.zsbuf # NULL
           /\ SurfaceTexture(fb.state.zsbuf) = res
    THEN "match" ELSE "nomatch"
GlobalOutcome(res) ==
  IF \E i \in Slots : i < global_binding.count
                      /\ global_binding.states[i] = res
    THEN "match" ELSE "nomatch"

view_dirty_bits ==
  [VERTEX |-> "VERTEX_SAMPLER_VIEWS", FRAGMENT |-> "FRAGMENT_SAMPLER_VIEWS",
   GEOMETRY |-> "GEOMETRY_SAMPLER_VIEWS", COMPUTE |-> "COMPUTE_SAMPLER_VIEWS"]

Bit(outcome, bit) == IF outcome = "match" THEN {bit} ELSE {}

\* the local states of the scan, given what each loop came to
ScannedStates(res, oso, ov, ores, ocs) ==
  Bit(VbOutcome(res), "VERTEX_BUFFERS")
    \cup Bit(IbOutcome(res), "INDEX_BUFFER")
    \cup Bit(oso, "STREAM_OUTPUT_TARGETS")
    \cup UNION {Bit(ov[sh], view_dirty_bits[sh]) : sh \in Shaders}
    \cup Bit(CbufOutcome(res), "CONSTANT_BUFFER")
    \cup Bit(ores, "SHADER_RESOURCES")
    \cup Bit(FbOutcome(res), "FRAMEBUFFER")
    \cup Bit(ocs.result, "COMPUTE_RESOURCES")
    \cup Bit(GlobalOutcome(res), "GLOBAL_BINDING")

MarkStatesWithResourceDirty(res, oso, ov, ores, ocs) ==
  LET early == oso = "fault" \/ ores = "fault"
                 \/ \E sh \in Shaders : ov[sh] = "fault"
  IN  /\ Uses("mark_states_with_resource_dirty")
      /\ op' = [name |-> "mark_states_with_resource_dirty", res |-> res]
      /\ calls' = <<>>
      /\ cs_resource' =
           IF early THEN cs_resource
           ELSE [cs_resource EXCEPT !.states =
                   [i \in Slots |-> IF i < ocs.released THEN NULL ELSE @[i]]]
      /\ crashed' = (early \/ ocs.result = "fault")
      /\ dirty' = IF early \/ ocs.result = "fault" THEN dirty
                  ELSE Marked(dirty, ScannedStates(res, oso, ov, ores, ocs))
      /\ UNCHANGED <<sampler, view, resource, global_binding, bufVars,
                     csoVars, draw, workload>>
      /\ Referenced(IF early THEN {} ELSE Range(0, ocs.released),
                    cs_resource.states, cs_resource'.states)

ilo_mark_states_with_resource_dirty ==
  /\ Uses("mark_states_with_resource_dirty")
  /\ \E res \in Resources :
       \E oso \in SoOutcomes(res) :
         \E ov \in [Shaders -> {"fault", "match", "nomatch"}] :
           \E ores \in ResourceOutcomes(res) :
             \E ocs \in CsScanOutcomes(cs_resource.count, 0) :
               /\ \A sh \in Shaders : ov[sh] \in ViewOutcomes(sh, res)
               /\ MarkStatesWithResourceDirty(res, oso, ov, ores, ocs)

(***************************************************************************)
(* ilo_finalize_3d_states.                                                 *)
(***************************************************************************)
\* the loop for (type = 0; type < PIPE_SHADER_TYPES; type++)
ShaderOrder == <<"VERTEX", "FRAGMENT", "GEOMETRY", "COMPUTE">>

StageShader(type) ==
  IF type = "VERTEX" THEN cso["vs"]
  ELSE IF type = "GEOMETRY" THEN cso["gs"]
  ELSE IF type = "FRAGMENT" THEN cso["fs"]
  ELSE NULL

\* a faulty variant: every stage is tested against the vertex shader's bit
VsBit(type) == "VS"

\* a faulty variant: the fragment stage is given the rasterizer's bit
StageBitOfRasterizer(type) ==
  IF type = "VERTEX" THEN "VS"
  ELSE IF type = "GEOMETRY" THEN "GS"
  ELSE "RASTERIZER"

StageBit(type) ==
  IF type = "VERTEX" THEN "VS"
  ELSE IF type = "GEOMETRY" THEN "GS"
  ELSE "FS"

\* struct pipe_draw_info as the caller fills it
Draws == [indexed : BOOLEAN, start : 0..MaxDraw, count : {0, 2}]

\* what the shader backend answers: for each stage whether
\* ilo_shader_select_kernel selected a new kernel, and whether
\* ilo_shader_select_kernel_routing changed the routing
KernelAnswers ==
  {k \in [Shaders \cup {"routing"} -> BOOLEAN] :
     /\ \A sh \in Shaders : k[sh] => StageShader(sh) # NULL
     /\ k["routing"] => cso["fs"] # NULL}

\* a faulty variant: the kernel is selected, its answer is dropped
SelectKernelNoRaise(c, type, k) ==
  [c EXCEPT !.calls = Append(@,
     [fn |-> "ilo_shader_select_kernel", type |-> type,
      shader |-> StageShader(type), dirty |-> c.dirty, ret |-> k[type]])]

\* the kernel selection of one stage, on c = [dirty, calls]: every call of
\* a collaborator is logged with its arguments and what it returned
SelectKernel(c, type, k) ==
  LET call == [fn |-> "ilo_shader_select_kernel", type |-> type,
               shader |-> StageShader(type), dirty |-> c.dirty,
               ret |-> k[type]]
  IN  IF StageBit(type) \in c.dirty
        THEN [c EXCEPT !.calls =
                Append(@, [call EXCEPT !.dirty = ILO_DIRTY_ALL])]
        ELSE [dirty |-> IF k[type] THEN c.dirty \cup {StageBit(type)}
                                   ELSE c.dirty,
              calls |-> Append(c.calls, call)]

\* a faulty variant: the routing is never selected
NoRouting(c, type, k) == c

\* need to setup SBE for FS
SelectRouting(c, type, k) ==
  IF type = "FRAGMENT"
       /\ c.dirty \cap {StageBit(type), "GS", "VS", "RASTERIZER"} # {}
    THEN [dirty |-> IF k["routing"] THEN c.dirty \cup {StageBit(type)}
                                    ELSE c.dirty,
          calls |-> Append(c.calls,
            [fn |-> "ilo_shader_select_kernel_routing",
             shader |-> StageShader(type),
             source |-> IF cso["gs"] # NULL THEN "GEOMETRY" ELSE "VERTEX",
             source_shader |-> IF cso["gs"] # NULL THEN cso["gs"]
                                                   ELSE cso["vs"],
             rasterizer |-> cso["rasterizer"],
             ret |-> k["routing"]])]
    ELSE c

\* one iteration of the loop of finalize_shader_states on c = [dirty, calls]
ShaderStep(c, type, k) ==
  IF StageShader(type) = NULL THEN c
  ELSE SelectRouting(SelectKernel(c, type, k), type, k)

RECURSIVE finalize_shader_states(_, _, _)
finalize_shader_states(c, type, k) ==
  IF type > Len(ShaderOrder) THEN c
  ELSE finalize_shader_states(ShaderStep(c, ShaderOrder[type], k), type + 1, k)

\* the upload manager: the n-th staging call of a pass is given the n-th
\* aligned range after the offset the pass starts at
UploadAlign == 16
UploadBases == {b * UploadAlign : b \in 0..MaxUploadBase}
StagedOffset(base, n) == base + n * UploadAlign

\* a faulty variant: the number of bits set
util_bitcount(mask) == Cardinality(mask)

\* util_last_bit: the index of the highest bit set, plus one
util_last_bit(mask) ==
  IF mask = {} THEN 0 ELSE (CHOOSE i \in mask : \A j \in mask : j <= i) + 1

\* the slots in the order the loops of finalize_constant_buffers meet them
CbufOrder ==
  [n \in 1..(Len(ShaderOrder) * MaxBuffers) |->
     <<ShaderOrder[((n - 1) \div MaxBuffers) + 1], (n - 1) % MaxBuffers>>]

\* a faulty variant: no user buffer is uploaded
KeepUserBuffers(c, n, base) == c

\* a faulty variant: a staged span stays pending
RECURSIVE UploadKeepingSpans(_, _, _)
UploadKeepingSpans(c, n, base) ==
  IF n > Len(CbufOrder) THEN c
  ELSE LET sh == CbufOrder[n][1]
           i == CbufOrder[n][2]
           slot == c.cbuf[sh].cso[i]
           offset == StagedOffset(base, c.staged)
       IN  IF i \in c.cbuf[sh].enabled_mask /\ slot.user_buffer # NULL
             THEN UploadKeepingSpans(
                    [cbuf |-> [c.cbuf EXCEPT ![sh].cso[i] =
                       [resource |-> UploadBuffer,
                        user_buffer |-> slot.user_buffer,
                        user_buffer_size |-> slot.user_buffer_size,
                        surface |-> ViewSurfaceForBuffer(UploadBuffer, offset,
                                      slot.user_buffer_size)]],
                     calls |-> Append(c.calls,
                       [fn |-> "u_upload_data",
                        into |-> [sh |-> sh, index |-> i],
                        size |-> slot.user_buffer_size,
                        data |-> slot.user_buffer, data_offset |-> 0,
                        out_offset |-> offset]),
                     staged |-> c.staged + 1],
                    n + 1, base)
             ELSE UploadKeepingSpans(c, n + 1, base)

\* the upload of the user buffers, on c = [cbuf, calls, staged]
RECURSIVE UploadUserBuffers(_, _, _)
UploadUserBuffers(c, n, base) ==
  IF n > Len(CbufOrder) THEN c
  ELSE LET sh == CbufOrder[n][1]
           i == CbufOrder[n][2]
           slot == c.cbuf[sh].cso[i]
           offset == StagedOffset(base, c.staged)
       IN  IF i \in c.cbuf[sh].enabled_mask /\ slot.user_buffer # NULL
             THEN UploadUserBuffers(
                    [cbuf |-> [c.cbuf EXCEPT ![sh].cso[i] =
                       [resource |-> UploadBuffer,
                        user_buffer |-> NULL,
                        user_buffer_size |-> 0,
                        surface |-> ViewSurfaceForBuffer(UploadBuffer, offset,
                                      slot.user_buffer_size)]],
                     calls |-> Append(c.calls,
                       [fn |-> "u_upload_data",
                        into |-> [sh |-> sh, index |-> i],
                        size |-> slot.user_buffer_size,
                        data |-> slot.user_buffer, data_offset |-> 0,
                        out_offset |-> offset]),
                     staged |-> c.staged + 1],
                    n + 1, base)
             ELSE UploadUserBuffers(c, n + 1, base)

\* a faulty variant: the phase runs whether or not the bit is set
FinalizeConstantBuffersAlways(c, base) ==
  LET u == UploadUserBuffers(
             [cbuf |-> c.cbuf, calls |-> c.calls, staged |-> c.staged],
             1, base)
  IN  [c EXCEPT
        !.cbuf = [sh \in Shaders |->
                    [u.cbuf[sh] EXCEPT
                       !.count = util_last_bit(u.cbuf[sh].enabled_mask)]],
        !.calls = u.calls,
        !.staged = u.staged]

finalize_constant_buffers(c, base) ==
  IF "CONSTANT_BUFFER" \notin c.dirty THEN c
  ELSE LET u == UploadUserBuffers(
                  [cbuf |-> c.cbuf, calls |-> c.calls, staged |-> c.staged],
                  1, base)
       IN  [c EXCEPT
             !.cbuf = [sh \in Shaders |->
                         [u.cbuf[sh] EXCEPT
                            !.count = util_last_bit(u.cbuf[sh].enabled_mask)]],
             !.calls = u.calls,
             !.staged = u.staged]

\* what ilo->ib.state.offset % ilo->ib.state.index_size comes to: with an
\* index_size of 0 the division is undefined (it traps, or yields a value)
\* a faulty variant: every buffer-backed binding is taken as misaligned
AlwaysMisaligned(fault) == TRUE

Misaligned(fault) ==
  IF ib.state.index_size = 0 THEN fault \in {"fault", "misaligned"}
  ELSE UMod(ib.state.offset, ib.state.index_size) # 0

IndexFaults ==
  IF ib.state.index_size = 0 /\ ib.state.user_buffer = NULL
    THEN {"fault", "misaligned", "aligned"} ELSE {"none"}

\* a faulty variant: the whole buffer from its bound offset
WholeBuffer(d) ==
  [offset |-> 0, size |-> BufferWidth - ib.state.offset]

\* offset and size of the draw's indices within the index buffer binding
IndexWindow(d) ==
  [offset |-> ib.state.index_size * d.start,
   size |-> ib.state.index_size * d.count]

\* a faulty variant: the draw's start is not taken off
StagedStartOffset(out, d) == UDiv(out, ib.state.index_size)

\* ilo->ib.draw_start_offset once the indices are staged at byte out
DrawStartOffset(out, d) == UDiv(out, ib.state.index_size) - d.start

\* finalize_index_buffer on c, for the draw d
finalize_index_buffer(c, d, base, fault) ==
  LET w == IndexWindow(d)
      out == StagedOffset(base, c.staged)
      uploaded ==
        [c EXCEPT
          !.ib = [ib EXCEPT !.resource = UploadBuffer,
                            !.draw_start_offset = DrawStartOffset(out, d)],
          !.dirty = @ \cup {"INDEX_BUFFER"},
          !.staged = @ + 1]
      upload_data ==
        [fn |-> "u_upload_data", into |-> [ib |-> TRUE], size |-> w.size,
         data |-> ib.state.user_buffer, data_offset |-> w.offset,
         out_offset |-> out]
      upload_buffer ==
        [fn |-> "u_upload_buffer", into |-> [ib |-> TRUE], size |-> w.size,
         data |-> ib.state.buffer, data_offset |-> ib.state.offset + w.offset,
         out_offset |-> out]
  IN  IF ~d.indexed THEN c
      ELSE IF ib.state.user_buffer # NULL
        THEN [uploaded EXCEPT !.calls = Append(@, upload_data)]
      ELSE IF fault = "fault" THEN [c EXCEPT !.crashed = TRUE]
      ELSE IF Misaligned(fault)
        THEN IF ib.state.buffer = NULL \/ ib.state.index_size = 0
               \* u_upload_buffer maps a NULL buffer; offset / 0
               THEN [c EXCEPT !.crashed = TRUE,
                              !.calls = Append(@, upload_buffer)]
               ELSE [uploaded EXCEPT !.calls = Append(@, upload_buffer)]
      ELSE c

\* a faulty variant: the region is closed only when something was staged
UnmapWhenStaged(c) ==
  IF c.crashed \/ c.staged = 0 THEN c.calls
  ELSE Append(c.calls, [fn |-> "u_upload_unmap"])

\* u_upload_unmap(ilo->uploader), reached when no phase aborted
UploadUnmap(c) ==
  IF c.crashed THEN c.calls
  ELSE Append(c.calls, [fn |-> "u_upload_unmap"])

Finalize3dStates(d, k, base, fault) ==
  LET c0 == [dirty |-> dirty, calls |-> <<>>]
      a == finalize_shader_states(c0, 1, k)
      b == finalize_constant_buffers(
             [dirty |-> a.dirty, calls |-> a.calls, cbuf |-> cbuf,
              ib |-> ib, staged |-> 0, crashed |-> FALSE], base)
      c == finalize_index_buffer(b, d, base, fault)
  IN  /\ Uses("finalize_3d_states")
      /\ draw' = d
      /\ dirty' = c.dirty
      /\ cbuf' = c.cbuf
      /\ ib' = c.ib
      /\ crashed' = c.crashed
      /\ calls' = UploadUnmap(c)
      /\ op' = Call("finalize_3d_states")
      /\ UNCHANGED <<slotVars, vb, so, fb, csoVars, workload>>
      /\ Referenced(
           {s \in Shaders \X BufferSlots :
              cbuf[s[1]].cso[s[2]].user_buffer # NULL} \cup {<<"ib", 0>>},
           [s \in (Shaders \X BufferSlots) \cup {<<"ib", 0>>} |->
              IF s[1] = "ib" THEN ib.resource
              ELSE cbuf[s[1]].cso[s[2]].resource],
           [s \in (Shaders \X BufferSlots) \cup {<<"ib", 0>>} |->
              IF s[1] = "ib" THEN ib'.resource
              ELSE cbuf'[s[1]].cso[s[2]].resource])

\* the draws of this client: indexed ones only when it binds index buffers
ClientDraws ==
  IF "set_index_buffer" \in workload.entries THEN Draws
  ELSE {d \in Draws : ~d.indexed /\ d.start = 0 /\ d.count = 0}

\* where the upload manager starts the pass, when the pass stages anything
PassBases(d) ==
  IF d.indexed \/ "CONSTANT_BUFFER" \in dirty THEN UploadBases ELSE {0}

ilo_finalize_3d_states ==
  /\ Uses("finalize_3d_states")
  /\ \E k \in KernelAnswers : \E d \in ClientDraws :
       \E base \in PassBases(d) :
         \E fault \in IF d.indexed THEN IndexFaults ELSE {"none"} :
           Finalize3dStates(d, k, base, fault)

(***************************************************************************)
(* The hardware encoder: it consumes the state and clears ilo->dirty.      *)
(***************************************************************************)
EncoderClear ==
  /\ Live
  /\ dirty # {}
  /\ dirty' = {}
  /\ op' = Call("encoder")
  /\ calls' = <<>>
  /\ UNCHANGED <<slotVars, bufVars, csoVars, draw, crashed, refs, workload>>

(***************************************************************************)
(* ilo_cleanup_states.                                                     *)
(***************************************************************************)
\* a faulty variant: the resolved index resource is not released
CleanupSlotsWithoutIbResource ==
  VbSlots(vb.enabled_mask)
    \cup {<<"ib.state.buffer", "-", 0>>}
    \cup ArraySlots("so", 0..(so.count - 1))
    \cup UNION {ViewSlots(sh, 0..(view[sh].count - 1))
                  \cup CbufSlots(sh, BufferSlots) : sh \in Shaders}
    \cup ArraySlots("resource", 0..(resource.count - 1))
    \cup FbSlots(0..(fb.state.nr_cbufs - 1))
    \cup (IF fb.state.zsbuf # NULL THEN ZsSlot ELSE {})
    \cup ArraySlots("cs_resource", 0..(cs_resource.count - 1))
    \cup ArraySlots("global_binding", 0..(global_binding.count - 1))

\* the slots ilo_cleanup_states passes to pipe_*_reference(..., NULL)
CleanupSlots ==
  VbSlots(vb.enabled_mask)
    \cup IbSlots
    \cup ArraySlots("so", 0..(so.count - 1))
    \cup UNION {ViewSlots(sh, 0..(view[sh].count - 1))
                  \cup CbufSlots(sh, BufferSlots) : sh \in Shaders}
    \cup ArraySlots("resource", 0..(resource.count - 1))
    \cup FbSlots(0..(fb.state.nr_cbufs - 1))
    \cup (IF fb.state.zsbuf # NULL THEN ZsSlot ELSE {})
    \cup ArraySlots("cs_resource", 0..(cs_resource.count - 1))
    \cup ArraySlots("global_binding", 0..(global_binding.count - 1))

\* slot i of category cat once the teardown has gone over it
Cleaned(cat, i, p) == IF <<cat, "-", i>> \in CleanupSlots THEN NULL ELSE p

\* every slot it goes over is released and set to NULL; a sampler view is
\* released through a local copy of its pointer, which leaves the slot as
\* it was
ilo_cleanup_states ==
  /\ Uses("cleanup_states")
  /\ refs' = [h \in Objects |->
                refs[h] - Cardinality({s \in CleanupSlots : Ptr(s) = h})]
  /\ vb' = [vb EXCEPT !.states =
              [i \in BufferSlots |-> Cleaned("vb", i, @[i])]]
  /\ ib' = [ib EXCEPT
              !.state.buffer = Cleaned("ib.state.buffer", 0, @),
              !.resource = Cleaned("ib.resource", 0, @)]
  /\ so' = [so EXCEPT !.states = [i \in Slots |-> Cleaned("so", i, @[i])]]
  /\ cbuf' = [sh \in Shaders |->
                [cbuf[sh] EXCEPT !.cso =
                   [i \in BufferSlots |->
                      [@[i] EXCEPT !.resource =
                         IF <<"cbuf", sh, i>> \in CleanupSlots
                           THEN NULL ELSE @]]]]
  /\ resource' = [resource EXCEPT !.states =
                    [i \in Slots |-> Cleaned("resource", i, @[i])]]
  /\ fb' = [fb EXCEPT
              !.state.cbufs = [i \in Slots |-> Cleaned("fb.cbufs", i, @[i])],
              !.state.zsbuf = Cleaned("fb.zsbuf", 0, @)]
  /\ cs_resource' = [cs_resource EXCEPT !.states =
                       [i \in Slots |-> Cleaned("cs_resource", i, @[i])]]
  /\ global_binding' = [global_binding EXCEPT !.states =
                          [i \in Slots |->
                             Cleaned("global_binding", i, @[i])]]
  /\ op' = Call("cleanup_states")
  /\ calls' = <<>>
  /\ UNCHANGED <<dirty, sampler, view, csoVars, draw, crashed, workload>>

(***************************************************************************)
(* Clients.  A workload names the entry points a client calls, the stages  *)
(* whose constant buffers it sets and the number of leading slots of each  *)
(* array it uses.  The categories of the context are independent of each   *)
(* other, so the state space is explored one workload at a time.           *)
(***************************************************************************)
Workload(entries, shaders, slots) ==
  [entries |-> entries, shaders |-> shaders, slots |-> slots]

SlotEntries ==
  {"bind_fragment_sampler_states", "bind_vertex_sampler_states",
   "bind_geometry_sampler_states", "bind_compute_sampler_states",
   "set_fragment_sampler_views", "set_vertex_sampler_views",
   "set_geometry_sampler_views", "set_compute_sampler_views",
   "set_shader_resources", "set_compute_resources", "set_global_binding"}

CsoEntries ==
  {"bind_blend_state", "bind_rasterizer_state",
   "bind_depth_stencil_alpha_state", "bind_fs_state", "bind_vs_state",
   "bind_gs_state", "bind_vertex_elements_state", "bind_compute_state",
   "set_blend_color", "set_stencil_ref", "set_sample_mask", "set_clip_state",
   "set_polygon_stipple", "set_scissor_states", "set_viewport_states"}

BufferEntries ==
  {"set_constant_buffer", "set_framebuffer_state", "set_vertex_buffers",
   "set_index_buffer", "set_stream_output_targets"}

Mutators == SlotEntries \cup CsoEntries \cup BufferEntries

\* the stages whose constant buffers a client sets
CbufShaders == {"VERTEX", "FRAGMENT"}

\* a client of one entry point, over the whole of its array
Single(e) == Workload({e}, CbufShaders, MaxSlots + 1)

SlotWorkloads == {Single(e) : e \in SlotEntries}
MutatorWorkloads == {Single(e) : e \in Mutators}

\* clients whose resources are invalidated under them
NotifySingles ==
  {Workload({e, "mark_states_with_resource_dirty"}, {"FRAGMENT"}, MaxBind)
     : e \in {"set_vertex_buffers", "set_index_buffer",
              "set_stream_output_targets", "set_fragment_sampler_views",
              "set_compute_sampler_views", "set_constant_buffer",
              "set_shader_resources", "set_framebuffer_state",
              "set_compute_resources", "set_global_binding"}}
NotifyWorkloads ==
  NotifySingles
  \cup
  {Workload({e, "set_compute_resources", "mark_states_with_resource_dirty"},
            {"FRAGMENT"}, 1)
     : e \in {"set_vertex_buffers", "set_index_buffer",
              "set_stream_output_targets", "set_vertex_sampler_views",
              "set_geometry_sampler_views", "set_constant_buffer",
              "set_shader_resources", "set_framebuffer_state",
              "set_global_binding"}}

\* clients that draw
DrawWorkloads ==
  {Workload({"set_constant_buffer", "finalize_3d_states"}, CbufShaders, 0),
   Workload({"set_constant_buffer", "finalize_3d_states"}, {"FRAGMENT"}, 1),
   Workload({"set_index_buffer", "finalize_3d_states"}, {}, 0),
   Workload({"bind_vs_state", "bind_gs_state", "bind_fs_state",
             "bind_rasterizer_state", "finalize_3d_states"}, {}, 0)}

MutatorActions ==
  \/ ilo_bind_blend_state
  \/ ilo_bind_fragment_sampler_states
  \/ ilo_bind_vertex_sampler_states
  \/ ilo_bind_geometry_sampler_states
  \/ ilo_bind_compute_sampler_states
  \/ ilo_bind_rasterizer_state
  \/ ilo_bind_depth_stencil_alpha_state
  \/ ilo_bind_fs_state
  \/ ilo_bind_vs_state
  \/ ilo_bind_gs_state
  \/ ilo_bind_vertex_elements_state
  \/ ilo_set_blend_color
  \/ ilo_set_stencil_ref
  \/ ilo_set_sample_mask
  \/ ilo_set_clip_state
  \/ ilo_set_constant_buffer
  \/ ilo_set_framebuffer_state
  \/ ilo_set_polygon_stipple
  \/ ilo_set_scissor_states
  \/ ilo_set_viewport_states
  \/ ilo_set_fragment_sampler_views
  \/ ilo_set_vertex_sampler_views
  \/ ilo_set_geometry_sampler_views
  \/ ilo_set_compute_sampler_views
  \/ ilo_set_shader_resources
  \/ ilo_set_vertex_buffers
  \/ ilo_set_index_buffer
  \/ ilo_set_stream_output_targets
  \/ ilo_bind_compute_state
  \/ ilo_set_compute_resources
  \/ ilo_set_global_binding

\* every client: the context under all of its entry points
Init ==
  /\ Constructed
  /\ workload \in {Workload({e}, {"FRAGMENT"}, 1) : e \in Mutators}
                    \cup NotifyWorkloads \cup DrawWorkloads

Next ==
  \/ MutatorActions
  \/ ilo_mark_states_with_resource_dirty
  \/ ilo_finalize_3d_states
  \/ EncoderClear

Spec == Init /\ [][Next]_vars

\* the slot arrays
InitSlots == Constructed /\ workload \in SlotWorkloads

NextSlots ==
  \/ ilo_bind_fragment_sampler_states
  \/ ilo_bind_vertex_sampler_states
  \/ ilo_bind_geometry_sampler_states
  \/ ilo_bind_compute_sampler_states
  \/ ilo_set_fragment_sampler_views
  \/ ilo_set_vertex_sampler_views
  \/ ilo_set_geometry_sampler_views
  \/ ilo_set_compute_sampler_views
  \/ ilo_set_shader_resources
  \/ ilo_set_compute_resources
  \/ ilo_set_global_binding
  \/ EncoderClear

SpecSlots == InitSlots /\ [][NextSlots]_vars

\* the binding mutators, one at a time
InitMutators == Constructed /\ workload \in MutatorWorkloads

NextMutators == MutatorActions \/ EncoderClear

SpecMutators == InitMutators /\ [][NextMutators]_vars

\* resource invalidation
InitNotify == Constructed /\ workload \in NotifyWorkloads

NextNotify ==
  \/ ilo_set_vertex_buffers
  \/ ilo_set_index_buffer
  \/ ilo_set_stream_output_targets
  \/ ilo_set_fragment_sampler_views
  \/ ilo_set_vertex_sampler_views
  \/ ilo_set_geometry_sampler_views
  \/ ilo_set_compute_sampler_views
  \/ ilo_set_constant_buffer
  \/ ilo_set_shader_resources
  \/ ilo_set_framebuffer_state
  \/ ilo_set_compute_resources
  \/ ilo_set_global_binding
  \/ ilo_mark_states_with_resource_dirty
  \/ EncoderClear

SpecNotify == InitNotify /\ [][NextNotify]_vars

\* draws
InitDraw == Constructed /\ workload \in DrawWorkloads

NextDraw ==
  \/ ilo_set_constant_buffer
  \/ ilo_set_index_buffer
  \/ ilo_bind_vs_state
  \/ ilo_bind_gs_state
  \/ ilo_bind_fs_state
  \/ ilo_bind_rasterizer_state
  \/ ilo_finalize_3d_states
  \/ EncoderClear

SpecDraw == InitDraw /\ [][NextDraw]_vars

\* a client that binds state objects in any order, and their bits
MarkWorkload ==
  Workload({"bind_blend_state", "bind_rasterizer_state",
            "bind_depth_stencil_alpha_state", "bind_vertex_elements_state",
            "bind_compute_state"}, {}, 0)
MarkBits ==
  {"BLEND", "RASTERIZER", "DEPTH_STENCIL_ALPHA", "VERTEX_ELEMENTS", "COMPUTE"}

InitMark == Constructed /\ workload = MarkWorkload

NextMark ==
  \/ ilo_bind_blend_state
  \/ ilo_bind_rasterizer_state
  \/ ilo_bind_depth_stencil_alpha_state
  \/ ilo_bind_vertex_elements_state
  \/ ilo_bind_compute_state
  \/ EncoderClear

SpecMark == InitMark /\ [][NextMark]_vars

\* clients that bind reference-counted objects and tear the context down
TeardownWorkloads ==
  {[w EXCEPT !.entries = @ \cup {"cleanup_states"}] :
     w \in NotifySingles
            \cup {Workload({"set_constant_buffer", "finalize_3d_states"},
                           {"FRAGMENT"}, 1),
                  Workload({"set_index_buffer", "finalize_3d_states"}, {}, 0)}}

InitTeardown == Constructed /\ workload \in TeardownWorkloads

NextTeardown ==
  \/ ilo_set_vertex_buffers
  \/ ilo_set_index_buffer
  \/ ilo_set_stream_output_targets
  \/ ilo_set_fragment_sampler_views
  \/ ilo_set_compute_sampler_views
  \/ ilo_set_constant_buffer
  \/ ilo_set_shader_resources
  \/ ilo_set_framebuffer_state
  \/ ilo_set_compute_resources
  \/ ilo_set_global_binding
  \/ ilo_mark_states_with_resource_dirty
  \/ ilo_finalize_3d_states
  \/ ilo_cleanup_states
  \/ EncoderClear

SpecTeardown == InitTeardown /\ [][NextTeardown]_vars

(***************************************************************************)
(* Properties.                                                             *)
(***************************************************************************)
\* the call that has just been made
Notified == op.name = "mark_states_with_resource_dirty"
Finalized == op.name = "finalize_3d_states"

\* count == 0 or slot count-1 is occupied, and no slot at or past count is
WellTrimmed(a) ==
  /\ a.count = 0 \/ a.states[a.count - 1] # NULL
  /\ \A i \in Slots : i >= a.count => a.states[i] = NULL

\* C1: after any sequence of replace-range and sparse-update calls on the
\* samplers, sampler views, shader resources, compute resources and global
\* bindings, handle arrays with empty entries included, every slot array has
\* count == 0 or slot count-1 occupied, and no slot at index >= count
\* occupied.
C1_SlotArrayInvariant ==
  /\ \A sh \in Shaders : WellTrimmed(sampler[sh]) /\ WellTrimmed(view[sh])
  /\ WellTrimmed(resource)
  /\ WellTrimmed(cs_resource)
  /\ WellTrimmed(global_binding)

\* C2: no binding mutator, no notify and no finalize reduces the dirty set:
\* every bit set before such a call is still set after it.  Only the
\* encoder, which is outside this core, clears bits.
C2_DirtyNeverReduced ==
  [][op'.name # "encoder" => dirty \subseteq dirty']_vars

\* a finalize ran on a partly dirty context and the pending bit is still set
C2_PendingBitKept ==
  /\ Finalized
  /\ ~crashed
  /\ "CONSTANT_BUFFER" \in dirty
  /\ "BLEND" \notin dirty

\* the dirty bit of each mutator's own category
OwnBit ==
  [bind_blend_state |-> "BLEND",
   bind_fragment_sampler_states |-> "FRAGMENT_SAMPLERS",
   bind_vertex_sampler_states |-> "VERTEX_SAMPLERS",
   bind_geometry_sampler_states |-> "GEOMETRY_SAMPLERS",
   bind_compute_sampler_states |-> "COMPUTE_SAMPLERS",
   bind_rasterizer_state |-> "RASTERIZER",
   bind_depth_stencil_alpha_state |-> "DEPTH_STENCIL_ALPHA",
   bind_fs_state |-> "FS",
   bind_vs_state |-> "VS",
   bind_gs_state |-> "GS",
   bind_vertex_elements_state |-> "VERTEX_ELEMENTS",
   set_blend_color |-> "BLEND_COLOR",
   set_stencil_ref |-> "STENCIL_REF",
   set_sample_mask |-> "SAMPLE_MASK",
   set_clip_state |-> "CLIP",
   set_constant_buffer |-> "CONSTANT_BUFFER",
   set_framebuffer_state |-> "FRAMEBUFFER",
   set_polygon_stipple |-> "POLY_STIPPLE",
   set_scissor_states |-> "SCISSOR",
   set_viewport_states |-> "VIEWPORT",
   set_fragment_sampler_views |-> "FRAGMENT_SAMPLER_VIEWS",
   set_vertex_sampler_views |-> "VERTEX_SAMPLER_VIEWS",
   set_geometry_sampler_views |-> "GEOMETRY_SAMPLER_VIEWS",
   set_compute_sampler_views |-> "COMPUTE_SAMPLER_VIEWS",
   set_shader_resources |-> "SHADER_RESOURCES",
   set_vertex_buffers |-> "VERTEX_BUFFERS",
   set_index_buffer |-> "INDEX_BUFFER",
   set_stream_output_targets |-> "STREAM_OUTPUT_TARGETS",
   bind_compute_state |-> "COMPUTE",
   set_compute_resources |-> "COMPUTE_RESOURCES",
   set_global_binding |-> "GLOBAL_BINDING"]

\* C3: every public set/bind mutator that returns leaves the dirty bit of
\* its own category set, whatever its arguments: a value equal to the one
\* bound, a null argument, and a bit the encoder had just cleared included.
C3_MutatorLeavesOwnBitSet ==
  \A e \in Mutators : (op.name = e /\ ~crashed) => OwnBit[e] \in dirty

\* the encoder had cleared the word, then NULL was bound over NULL
C3_RebindAfterClear ==
  /\ op.name = "bind_fs_state"
  /\ cso["fs"] = NULL
  /\ dirty = {"FS"}

\* C4: notify(R) raises the vertex-buffer bit if and only if R is
\* buffer-typed and some vertex-buffer slot whose bit is set in the enabled
\* mask references R.
C4_NotifyVertexBuffers ==
  [][(op'.name = "mark_states_with_resource_dirty"
        /\ "VERTEX_BUFFERS" \notin dirty)
       => ("VERTEX_BUFFERS" \in dirty'
             <=> /\ IsBuffer(op'.res)
                 /\ \E i \in vb.enabled_mask : vb.states[i] = op'.res)]_vars

\* C5: notify(R) raises the compute-resources bit whenever some
\* compute-resource slot below count references R as its underlying
\* resource.
C5_NotifyComputeResources ==
  [][(/\ op'.name = "mark_states_with_resource_dirty"
      /\ \E i \in Slots : /\ i < cs_resource.count
                          /\ cs_resource.states[i] # NULL
                          /\ SurfaceTexture(cs_resource.states[i]) = op'.res)
       => "COMPUTE_RESOURCES" \in dirty']_vars

\* no slot below the count of a slot array is empty
NoHole(a) == \A i \in Slots : i < a.count => a.states[i] # NULL

NoHoles ==
  /\ NoHole(so)
  /\ \A sh \in Shaders : NoHole(view[sh])
  /\ NoHole(resource)
  /\ NoHole(cs_resource)
  /\ NoHole(global_binding)

\* the category of bit b references the resource r
References(b, r) ==
  \/ /\ b = "STREAM_OUTPUT_TARGETS"
     /\ IsBuffer(r)
     /\ \E i \in Slots : /\ i < so.count
                         /\ so.states[i] # NULL
                         /\ TargetBuffer(so.states[i]) = r
  \/ /\ b = "CONSTANT_BUFFER"
     /\ IsBuffer(r)
     /\ \E sh \in Shaders : \E i \in BufferSlots : cbuf[sh].cso[i].resource = r
  \/ /\ b = "FRAMEBUFFER"
     /\ ~IsBuffer(r)
     /\ \/ \E i \in Slots : /\ i < fb.state.nr_cbufs
                            /\ SurfaceTexture(fb.state.cbufs[i]) = r
        \/ /\ fb.state.zsbuf # NULL
           /\ SurfaceTexture(fb.state.zsbuf) = r
  \/ \E sh \in Shaders :
       /\ b = view_dirty_bits[sh]
       /\ \E i \in Slots : /\ i < view[sh].count
                           /\ view[sh].states[i] # NULL
                           /\ ViewTexture(view[sh].states[i]) = r
  \/ /\ b = "SHADER_RESOURCES"
     /\ \E i \in Slots : /\ i < resource.count
                         /\ resource.states[i] # NULL
                         /\ SurfaceTexture(resource.states[i]) = r
  \/ /\ b = "GLOBAL_BINDING"
     /\ \E i \in Slots : /\ i < global_binding.count
                         /\ global_binding.states[i] = r

C6Bits ==
  {"STREAM_OUTPUT_TARGETS", "CONSTANT_BUFFER", "FRAMEBUFFER",
   "SHADER_RESOURCES", "GLOBAL_BINDING"}
    \cup {view_dirty_bits[sh] : sh \in Shaders}

\* C6: in a state where no category has an empty slot below its count,
\* notify(R) raises the bit of the stream-output targets, the constant
\* buffers, the framebuffer, a stage's sampler views, the shader resources
\* or the global bindings if and only if that category references R
\* (stream-output targets and constant buffers only for a buffer-typed R,
\* the framebuffer only for an R that is not buffer-typed).
C6_NotifyCategories ==
  [][(op'.name = "mark_states_with_resource_dirty" /\ NoHoles)
       => \A b \in C6Bits \ dirty :
            b \in dirty' <=> References(b, op'.res)]_vars

\* The vertex-buffer test of notify on the calls that return: the bit is
\* raised exactly for a buffer that an enabled slot references.
NotifyVertexBuffersOnReturn ==
  [][(op'.name = "mark_states_with_resource_dirty" /\ ~crashed'
        /\ "VERTEX_BUFFERS" \notin dirty)
       => ("VERTEX_BUFFERS" \in dirty'
             <=> /\ IsBuffer(op'.res)
                 /\ \E i \in vb.enabled_mask : vb.states[i] = op'.res)]_vars

\* The category tests of notify while no compute resource is bound.
NotifyCategoriesWithoutCompute ==
  [][(op'.name = "mark_states_with_resource_dirty" /\ NoHoles
        /\ cs_resource.count = 0)
       => \A b \in C6Bits \ dirty :
            b \in dirty' <=> References(b, op'.res)]_vars

\* C7: after a finalize entered with the constant-buffer bit set, every
\* stage's constant-buffer count is the index of its highest enabled slot
\* plus one, or 0 when no slot is enabled.
C7_CbufCountAfterFinalize ==
  [][(op'.name = "finalize_3d_states" /\ "CONSTANT_BUFFER" \in dirty)
       => \A sh \in Shaders :
            LET m == cbuf'[sh].enabled_mask
                n == cbuf'[sh].count
            IN  /\ m = {} => n = 0
                /\ m # {} => (n - 1 \in m /\ \A j \in m : j < n)]_vars

\* a finalize counted a stage whose slot 0 is disabled and slot 1 enabled
C7_CountOverHole ==
  /\ Finalized
  /\ cbuf["FRAGMENT"].enabled_mask = {1}
  /\ cbuf["FRAGMENT"].count = 2

\* C8: after a finalize entered with the constant-buffer bit set, no enabled
\* constant-buffer slot holds a pending client span: every slot that held
\* one holds the staged resource at the offset the upload returned, and its
\* span and span size are cleared.
C8_UserBuffersStaged ==
  [][(op'.name = "finalize_3d_states" /\ "CONSTANT_BUFFER" \in dirty)
       => \A sh \in Shaders : \A i \in BufferSlots :
            LET old == cbuf[sh].cso[i]
                new == cbuf'[sh].cso[i]
            IN  /\ i \in cbuf'[sh].enabled_mask => new.user_buffer = NULL
                /\ (i \in cbuf[sh].enabled_mask /\ old.user_buffer # NULL)
                     => /\ new.resource = UploadBuffer
                        /\ new.user_buffer = NULL
                        /\ new.user_buffer_size = 0
                        /\ \E n \in 1..Len(calls') :
                             /\ calls'[n].fn = "u_upload_data"
                             /\ calls'[n].into = [sh |-> sh, index |-> i]
                             /\ calls'[n].data = old.user_buffer
                             /\ calls'[n].size = old.user_buffer_size
                             /\ new.surface =
                                  [bo |-> UploadBuffer,
                                   offset |-> calls'[n].out_offset,
                                   size |-> old.user_buffer_size]]_vars

\* a finalize staged the spans of two slots, one after the other
C8_TwoSpansStaged ==
  /\ Finalized
  /\ Len(calls) = 3
  /\ calls[1].fn = "u_upload_data"
  /\ calls[2].fn = "u_upload_data"
  /\ \E sh \in Shaders : \E i \in BufferSlots :
       /\ cbuf[sh].cso[i].resource = UploadBuffer
       /\ cbuf[sh].cso[i].surface.offset = calls[2].out_offset
       /\ calls[2].out_offset # calls[1].out_offset

\* an indexed draw was finalized over a buffer binding whose byte offset is
\* not a multiple of index_size
MisalignedDraw ==
  /\ Finalized
  /\ ~crashed
  /\ draw.indexed
  /\ ib.state.user_buffer = NULL
  /\ ib.state.buffer # NULL
  /\ ib.state.index_size # 0
  /\ ib.state.offset % ib.state.index_size # 0

\* the staging call of the index buffer in the last finalize
IndexUploads ==
  {n \in 1..Len(calls) :
     calls[n].fn = "u_upload_buffer" /\ calls[n].into = [ib |-> TRUE]}

C10_StartPlusOriginalOffset ==
  MisalignedDraw
    => ib.draw_start_offset + draw.start
         = ib.state.offset \div ib.state.index_size

\* C10, as the code has it: resolved_start + draw.start equals the byte
\* offset the upload returned for the staged window, in elements.
C10_StartPlusStagedOffset ==
  MisalignedDraw
    => \E n \in IndexUploads :
         ib.draw_start_offset + draw.start
           = calls[n].out_offset \div ib.state.index_size

\* a misaligned draw with a start was restaged away from offset 0: the
\* resolved start is not the bound offset in elements
C10_Restaged ==
  /\ MisalignedDraw
  /\ draw.start > 0
  /\ IndexUploads # {}
  /\ ib.draw_start_offset > 0
  /\ ib.draw_start_offset # ib.state.offset \div ib.state.index_size

\* the graphics stages, the field of the context that binds each one's
\* shader and its dirty bit
GraphicsStages == {"VERTEX", "GEOMETRY", "FRAGMENT"}
BoundField == [VERTEX |-> "vs", GEOMETRY |-> "gs", FRAGMENT |-> "fs"]
BitOf == [VERTEX |-> "VS", GEOMETRY |-> "GS", FRAGMENT |-> "FS"]

\* the kernel selections of stage t in the log l of a finalize
KernelCalls(l, t) ==
  {n \in 1..Len(l) :
     l[n].fn = "ilo_shader_select_kernel" /\ l[n].type = t}

\* C11: in every finalize, each bound graphics stage whose own dirty bit is
\* set has its kernel selected exactly once, in full mode (ILO_DIRTY_ALL),
\* and its bit is still set when finalize returns; no kernel is selected for
\* a stage that is not bound (the compute stage never is).
C11_FullSelectionWhenDirty ==
  [][op'.name = "finalize_3d_states"
       => /\ \A t \in GraphicsStages :
               IF cso[BoundField[t]] = NULL
                 THEN KernelCalls(calls', t) = {}
                 ELSE BitOf[t] \in dirty
                        => /\ Cardinality(KernelCalls(calls', t)) = 1
                           /\ \A n \in KernelCalls(calls', t) :
                                /\ calls'[n].dirty = ILO_DIRTY_ALL
                                /\ calls'[n].shader = cso[BoundField[t]]
                           /\ BitOf[t] \in dirty'
          /\ KernelCalls(calls', "COMPUTE") = {}]_vars

\* a finalize selected the fragment kernel in full mode with only the
\* fragment bit set, and no vertex shader bound
C11_FullModeOnFsBit ==
  /\ Finalized
  /\ cso["fs"] # NULL
  /\ cso["vs"] = NULL
  /\ dirty = {"FS"}
  /\ \E n \in KernelCalls(calls, "FRAGMENT") : calls[n].dirty = ILO_DIRTY_ALL

\* one past the highest occupied slot of a slot array, 0 when all are empty
PastHighest(a) ==
  IF \A i \in Slots : a.states[i] = NULL THEN 0
  ELSE (CHOOSE i \in Slots :
          a.states[i] # NULL /\ \A j \in Slots : j > i => a.states[j] = NULL)
       + 1

\* the count of a slot array after sparse_update(start, n, ...)
SparseCount(old, new, start, n) ==
  IF start + n >= old.count THEN new.count = PastHighest(new)
                            ELSE new.count = old.count

\* the ranges within the capacity, and the handle arrays a call on range r
\* can have passed when it left the slot array new: the handles the range
\* holds, or a NULL array
RangesWithin == {r \in Ranges : r[1] + r[2] <= MaxSlots}
Passed(new, r) ==
  {[i \in 1..r[2] |-> new.states[r[1] + i - 1]], NoArray}
\* the ranges a call that took the slot array old to new can have been on:
\* those outside of which no slot changed
RangesOf(old, new) ==
  {r \in RangesWithin :
     \A i \in Slots : old.states[i] # new.states[i]
                        => (r[1] <= i /\ i < r[1] + r[2])}

\* C12: after sparse_update(start, n, handles) that returns, if start+n is
\* at least the old count the new count is one past the highest occupied
\* slot (0 when every slot is empty), otherwise the count is unchanged; on an
\* empty category sparse_update(2, 2, [A, B]) gives count 4 with slots 0 and
\* 1 empty and slots 2 and 3 holding A and B.  The sparse updates are the
\* compute samplers and sampler views, the shader resources, the compute
\* resources and the global bindings.
C12_SparseUpdateCount ==
  [][~crashed' =>
       /\ op'.name = "bind_compute_sampler_states" =>
            \A r \in RangesOf(sampler["COMPUTE"], sampler'["COMPUTE"]) :
              \A h \in Passed(sampler'["COMPUTE"], r) :
                sampler'["COMPUTE"]
                    = bind_samplers(sampler["COMPUTE"], r[1], r[2], h, FALSE)
                  => SparseCount(sampler["COMPUTE"], sampler'["COMPUTE"],
                                 r[1], r[2])
       /\ op'.name = "set_compute_sampler_views" =>
            \A r \in RangesOf(view["COMPUTE"], view'["COMPUTE"]) :
              \A h \in Passed(view'["COMPUTE"], r) :
                view'["COMPUTE"]
                    = set_sampler_views(view["COMPUTE"], r[1], r[2], h, FALSE)
                  => SparseCount(view["COMPUTE"], view'["COMPUTE"],
                                 r[1], r[2])
       /\ op'.name = "set_shader_resources" =>
            \A r \in RangesOf(resource, resource') :
              \A h \in Passed(resource', r) :
                resource' = SparseUpdate(resource, r[1], r[2], h)
                  => SparseCount(resource, resource', r[1], r[2])
       /\ op'.name = "set_compute_resources" =>
            \A r \in RangesOf(cs_resource, cs_resource') :
              \A h \in Passed(cs_resource', r) :
                cs_resource' = SparseUpdate(cs_resource, r[1], r[2], h)
                  => /\ SparseCount(cs_resource, cs_resource', r[1], r[2])
                     /\ (cs_resource = EmptyArray /\ r = <<2, 2>>
                           /\ h = <<"F1", "F2">>)
                          => /\ cs_resource'.count = 4
                             /\ cs_resource'.states[0] = NULL
                             /\ cs_resource'.states[1] = NULL
                             /\ cs_resource'.states[2] = "F1"
                             /\ cs_resource'.states[3] = "F2"
       /\ op'.name = "set_global_binding" =>
            \A r \in RangesOf(global_binding, global_binding') :
              \A h \in Passed(global_binding', r) :
                global_binding' = SparseUpdate(global_binding, r[1], r[2], h)
                  => SparseCount(global_binding, global_binding',
                                 r[1], r[2])]_vars

\* a sparse update left the compute resources with count 4 over two
\* leading empty slots
C12_GrownOverHoles ==
  /\ op.name = "set_compute_resources"
  /\ ~crashed
  /\ cs_resource.count = 4
  /\ cs_resource.states[0] = NULL
  /\ cs_resource.states[1] = NULL
  /\ cs_resource.states[2] = "F1"
  /\ cs_resource.states[3] = "F2"

\* the slot array new is what replace_range(start, n, handles) leaves
ReplacePost(new, start, n, handles) ==
  IF handles = NoArray
    THEN new.count = 0 /\ \A i \in Slots : new.states[i] = NULL
    ELSE /\ new.count = start + n
         /\ \A i \in Slots :
              new.states[i] = IF i >= start /\ i < start + n
                                THEN handles[i - start + 1] ELSE NULL

\* the stages whose samplers and sampler views are bound by replace_range
ReplaceStages == {"FRAGMENT", "VERTEX", "GEOMETRY"}
ReplaceSamplers ==
  [FRAGMENT |-> "bind_fragment_sampler_states",
   VERTEX |-> "bind_vertex_sampler_states",
   GEOMETRY |-> "bind_geometry_sampler_states"]
ReplaceViews ==
  [FRAGMENT |-> "set_fragment_sampler_views",
   VERTEX |-> "set_vertex_sampler_views",
   GEOMETRY |-> "set_geometry_sampler_views"]

\* C13: replace_range(start, n, handles) on any reachable sampler or
\* sampler-view array: with a null handle array every slot ends empty and
\* count is 0; with a non-null array slots [0, start) are empty, slots
\* [start, start+n) hold exactly the handles supplied, every slot from
\* start+n up to the capacity is empty, and count == start+n.
C13_ReplaceRangePost ==
  \A sh \in ReplaceStages : \A r \in RangesWithin :
    /\ ReplaceSamplers[sh] \in workload.entries =>
         \A h \in Arrays(Samplers, r[2]) :
           ReplacePost(bind_samplers(sampler[sh], r[1], r[2], h, TRUE),
                       r[1], r[2], h)
    /\ ReplaceViews[sh] \in workload.entries =>
         \A h \in Arrays(Views, r[2]) :
           ReplacePost(set_sampler_views(view[sh], r[1], r[2], h, TRUE),
                       r[1], r[2], h)

\* a replace_range call left the fragment sampler views with the first slot
\* occupied and every other slot empty
C13_Shortened ==
  /\ op.name = "set_fragment_sampler_views"
  /\ view["FRAGMENT"].count = 1
  /\ view["FRAGMENT"].states[0] = "VT"
  /\ \A i \in Slots : i > 0 => view["FRAGMENT"].states[i] = NULL

\* the staging calls and the closings of the staging region in the log of
\* the last finalize
StagingCalls ==
  {n \in 1..Len(calls) : calls[n].fn \in {"u_upload_data", "u_upload_buffer"}}
Unmaps == {n \in 1..Len(calls) : calls[n].fn = "u_upload_unmap"}

\* C14: each finalize call that returns closes the upload staging region
\* (u_upload_unmap) exactly once, after all three phases have run, whether
\* the pass performed zero, one or many staging calls.
C14_UnmapOncePerFinalize ==
  (Finalized /\ ~crashed)
    => /\ Unmaps = {Len(calls)}
       /\ Len(calls) > 0
       /\ \A n \in StagingCalls : n < Len(calls)

\* a finalize staged two user constant buffers and then closed the region
C14_ClosedAfterTwoStagings ==
  /\ Finalized
  /\ ~crashed
  /\ Cardinality(StagingCalls) = 2
  /\ calls[Len(calls)].fn = "u_upload_unmap"

\* a finalize that staged nothing closed the region
C14_ClosedWithoutStaging ==
  /\ Finalized
  /\ ~crashed
  /\ StagingCalls = {}
  /\ Unmaps # {}

\* the number of slots of the context that point to object h
Holds(h) == Cardinality({s \in RefSlots : Ptr(s) = h})

\* C15: in every reachable state the context holds exactly one reference
\* per occupied slot of each reference-counted category (a replaced or
\* cleared occupant was released once, a newly bound one acquired once, the
\* index buffer's resolved resource included when finalize swaps it for a
\* staged one); after ilo_cleanup_states, following any sequence of
\* mutators, notify and finalize calls, the context holds no reference and
\* none was released twice.
C15_ReferenceBalance ==
  \A h \in Objects :
    IF op.name = "cleanup_states" THEN refs[h] = 0 ELSE refs[h] = Holds(h)

\* the context was torn down after an indexed draw was finalized, with the
\* indices in client memory
C15_TornDownAfterDraw ==
  /\ op.name = "cleanup_states"
  /\ draw # NoDraw
  /\ draw.indexed
  /\ ib.state.user_buffer # NULL
  /\ ib.resource = NULL

\* a finalize swapped the resolved index resource, buffer B1, for the
\* staged buffer: the binding keeps its one reference to B1
C15_SwappedForStaged ==
  /\ Finalized
  /\ ib.state.buffer = "B1"
  /\ ib.resource = UploadBuffer
  /\ refs["B1"] = 1
  /\ refs[UploadBuffer] = 1

\* the entry points that take a slot range of an array-shaped category
ArrayMutators ==
  SlotEntries \cup {"set_constant_buffer", "set_viewport_states",
                    "set_stream_output_targets"}

\* C16: every array-shaped binding mutator (samplers, sampler views, shader
\* resources, compute resources, global bindings, constant buffers,
\* viewports, stream-output targets) rejects a slot range that exceeds the
\* category's capacity with a fatal abort before it writes any slot: no such
\* call returns, so none leaves a count past the capacity.
C16_OutOfCapacityAborts ==
  (op.name \in ArrayMutators /\ ~crashed)
    => /\ \A sh \in Shaders : /\ sampler[sh].count <= MaxSlots
                              /\ view[sh].count <= MaxSlots
                              /\ cbuf[sh].count <= MaxBuffers
       /\ resource.count <= MaxSlots
       /\ cs_resource.count <= MaxSlots
       /\ global_binding.count <= MaxSlots
       /\ viewport.count <= MaxSlots
       /\ so.count <= MaxSlots

\* the categories that assert their range: an out-of-capacity call aborts
\* and leaves every slot as it was
C16_AssertedRangesAbort ==
  [][(crashed' /\ op'.name \in SlotEntries)
       => UNCHANGED <<slotVars, dirty>>]_vars

\* C17: after finalize returns, the context retains nothing of that call's
\* draw parameters (the indexed flag, start, count), nor a reference to the
\* caller's draw record: ilo->draw does not point to it any more.
C17_DrawNotRetained == (Finalized /\ ~crashed) => draw = NoDraw

\* C18: marking dirty bits is idempotent and order-independent: on every
\* reachable flag word and for any bit sets a and b, mark(a); mark(a) gives
\* the same word as mark(a), and mark(a); mark(b) the same word as
\* mark(b); mark(a).
C18_MarkIdempotentCommutes ==
  \A a \in SUBSET MarkBits \cup {ILO_DIRTY_ALL} :
    /\ Marked(Marked(dirty, a), a) = Marked(dirty, a)
    /\ \A b \in SUBSET MarkBits \cup {ILO_DIRTY_ALL} :
         Marked(Marked(dirty, a), b) = Marked(Marked(dirty, b), a)

\* the steps of the model agree: a mutator that marks a bit already set
\* leaves the word as it was
C18_RemarkKeepsWord ==
  [][(op'.name \in MarkWorkload.entries /\ OwnBit[op'.name] \in dirty)
       => dirty' = dirty]_vars

\* the rasterizer bit and then the blend bit were marked on a cleared word
C18_TwoBitsMarked ==
  /\ op.name = "bind_blend_state"
  /\ dirty = {"BLEND", "RASTERIZER"}

\* the bit a logged selection raised when it reported a change
RaisedBy(call) ==
  IF ~call.ret THEN {}
  ELSE IF call.fn = "ilo_shader_select_kernel" THEN {BitOf[call.type]}
  ELSE IF call.fn = "ilo_shader_select_kernel_routing" THEN {"FS"}
  ELSE {}

\* the dirty set when entry n of the log l of a finalize was made, the
\* finalize having started from the word d: d and the bits raised by the
\* entries before n
DirtyAt(d, l, n) == d \cup UNION {RaisedBy(l[m]) : m \in 1..(n - 1)}

RoutingCalls(l) ==
  {n \in 1..Len(l) : l[n].fn = "ilo_shader_select_kernel_routing"}

\* C19: in the shader phase of a finalize, for a bound graphics stage whose
\* own dirty bit is clear when the stage is processed, the kernel selection
\* is invoked once with exactly the dirty set current at that moment (bits
\* raised earlier in the same pass included), and that step raises the
\* stage's bit if and only if the selection reports a different kernel.
C19_PartialSelection ==
  [][(op'.name = "finalize_3d_states" /\ ~crashed')
       => \A t \in GraphicsStages :
            cso[BoundField[t]] # NULL
              => /\ Cardinality(KernelCalls(calls', t)) = 1
                 /\ \A n \in KernelCalls(calls', t) :
                      BitOf[t] \notin DirtyAt(dirty, calls', n)
                        => /\ calls'[n].dirty = DirtyAt(dirty, calls', n)
                           /\ calls'[n].ret => BitOf[t] \in dirty'
                           /\ BitOf[t] \in dirty'
                                => \/ calls'[n].ret
                                   \/ /\ t = "FRAGMENT"
                                      /\ \E m \in RoutingCalls(calls') :
                                           calls'[m].ret]_vars

\* a finalize on a cleared word selected a new vertex kernel and then
\* selected the geometry kernel against the vertex bit just raised, which
\* reported a change too
C19_SeesBitRaisedEarlier ==
  /\ Finalized
  /\ ~crashed
  /\ \E n \in KernelCalls(calls, "GEOMETRY") :
       /\ calls[n].dirty = {"VS"}
       /\ calls[n].ret
  /\ "GS" \in dirty

\* the bits that make the fragment stage set up its attribute routing
RoutingBits == {"FS", "GS", "VS", "RASTERIZER"}

\* C20: in the shader phase of a finalize, attribute-routing selection is
\* invoked if and only if a fragment shader is bound and, after the fragment
\* stage's kernel selection, at least one of the fragment, geometry, vertex
\* or rasterizer bits is set; it is invoked on the fragment shader with the
\* geometry shader as upstream stage when one is bound and the vertex shader
\* otherwise, together with the bound rasterizer state; the fragment bit is
\* set on return when it reports a change.
C20_RoutingSelection ==
  [][(op'.name = "finalize_3d_states" /\ ~crashed')
       => IF cso["fs"] = NULL THEN RoutingCalls(calls') = {}
          ELSE \A n \in KernelCalls(calls', "FRAGMENT") :
                 /\ (RoutingCalls(calls') # {})
                      <=> (DirtyAt(dirty, calls', n + 1) \cap RoutingBits # {})
                 /\ RoutingCalls(calls') \subseteq {n + 1}
                 /\ \A m \in RoutingCalls(calls') :
                      /\ calls'[m].shader = cso["fs"]
                      /\ calls'[m].source =
                           IF cso["gs"] # NULL THEN "GEOMETRY" ELSE "VERTEX"
                      /\ calls'[m].source_shader =
                           IF cso["gs"] # NULL THEN cso["gs"] ELSE cso["vs"]
                      /\ calls'[m].rasterizer = cso["rasterizer"]
                      /\ calls'[m].ret => "FS" \in dirty']_vars

\* a finalize selected the routing against the geometry shader because only
\* the rasterizer bit was set, and the routing raised the fragment bit
C20_RoutedFromGeometry ==
  /\ Finalized
  /\ ~crashed
  /\ cso["gs"] # NULL
  /\ dirty = {"RASTERIZER", "FS"}
  /\ \E m \in RoutingCalls(calls) :
       /\ calls[m].source = "GEOMETRY"
       /\ calls[m].rasterizer = cso["rasterizer"]
       /\ calls[m].ret
  /\ \E n \in KernelCalls(calls, "FRAGMENT") :
       calls[n].dirty = {"RASTERIZER"} /\ ~calls[n].ret

\* a finalize with a fragment shader bound selected no routing: none of the
\* four bits was set
C20_NoRoutingOnCleanWord ==
  /\ Finalized
  /\ ~crashed
  /\ cso["fs"] # NULL
  /\ KernelCalls(calls, "FRAGMENT") # {}
  /\ RoutingCalls(calls) = {}

\* the selection of stage t logged at n reported a new kernel while the
\* stage's bit was clear: that step raised the bit
RaisedInPass(d, l, t, n) ==
  /\ n \in KernelCalls(l, t)
  /\ BitOf[t] \notin DirtyAt(d, l, n)
  /\ l[n].ret

\* C21: the shader phase processes the stages in the order vertex,
\* geometry, fragment, so that whenever the kernel selection of the vertex
\* or of the geometry stage raises that stage's dirty bit during a finalize
\* and a fragment shader is bound, the fragment attribute routing is
\* selected in that same pass, after the bit was raised.
C21_RoutingSeesUpstreamChange ==
  [][(op'.name = "finalize_3d_states" /\ ~crashed' /\ cso["fs"] # NULL)
       => \A t \in {"VERTEX", "GEOMETRY"} : \A n \in 1..Len(calls') :
            RaisedInPass(dirty, calls', t, n)
              => \E m \in RoutingCalls(calls') : m > n]_vars

\* the vertex stage alone: its selection comes before the fragment stage's,
\* and the routing is selected after a vertex kernel change
C21_RoutingSeesVertexChange ==
  [][(op'.name = "finalize_3d_states" /\ ~crashed' /\ cso["fs"] # NULL)
       => \A n \in 1..Len(calls') :
            RaisedInPass(dirty, calls', "VERTEX", n)
              => \E m \in RoutingCalls(calls') : m > n]_vars

\* the staging calls of the constant buffers in the log l of a finalize
CbufUploads(l) ==
  {n \in 1..Len(l) : l[n].fn = "u_upload_data" /\ l[n].into # [ib |-> TRUE]}

\* C22: when the constant-buffer bit is clear on entry to the
\* constant-buffer phase, finalize performs no constant-buffer staging and
\* leaves every stage's constant-buffer slots, pending spans, enabled mask
\* and count unchanged, even if some enabled slot still holds a pending span.
C22_CbufPhaseGated ==
  [][(op'.name = "finalize_3d_states" /\ "CONSTANT_BUFFER" \notin dirty)
       => /\ cbuf' = cbuf
          /\ CbufUploads(calls') = {}]_vars

\* a finalize ran with the constant-buffer bit clear over an enabled slot
\* that holds a pending span, and another enabled slot above the count
C22_PendingSpanLeft ==
  /\ Finalized
  /\ ~crashed
  /\ "CONSTANT_BUFFER" \notin dirty
  /\ 0 \in cbuf["FRAGMENT"].enabled_mask
  /\ cbuf["FRAGMENT"].cso[0].user_buffer # NULL
  /\ cbuf["FRAGMENT"].count = 0

\* the index staging calls in the log l of a finalize
IndexStagings(l) ==
  {n \in 1..Len(l) :
     l[n].fn \in {"u_upload_data", "u_upload_buffer"}
       /\ l[n].into = [ib |-> TRUE]}

\* the index binding is backed by a buffer, with an element size, at a byte
\* offset that is a multiple of the element size
AlignedBinding ==
  /\ ib.state.user_buffer = NULL
  /\ ib.state.buffer # NULL
  /\ ib.state.index_size # 0
  /\ ib.state.offset % ib.state.index_size = 0

\* C23: when the draw is not indexed, or it is indexed with a buffer-backed
\* index binding whose byte offset is a multiple of index_size, finalize
\* performs no index staging, leaves the resolved index resource and the
\* resolved draw-start offset unchanged, and does not raise the index-buffer
\* bit.
C23_NoIndexStaging ==
  [][(op'.name = "finalize_3d_states" /\ (~draw'.indexed \/ AlignedBinding))
       => /\ IndexStagings(calls') = {}
          /\ ib'.resource = ib.resource
          /\ ib'.draw_start_offset = ib.draw_start_offset
          /\ "INDEX_BUFFER" \in dirty' => "INDEX_BUFFER" \in dirty]_vars

\* an indexed draw with a start was finalized over a buffer bound at an
\* aligned offset other than 0, after the encoder had cleared the word
C23_AlignedDrawFinalized ==
  /\ Finalized
  /\ ~crashed
  /\ draw.indexed
  /\ draw.start > 0
  /\ AlignedBinding
  /\ ib.state.offset > 0
  /\ ib.resource = ib.state.buffer
  /\ "INDEX_BUFFER" \notin dirty

\* C24: after the index phase stages index data (a pending client span, or
\* a misaligned offset), the resolved resource is the staged output, the
\* resolved draw-start offset equals (returned byte offset / index_size)
\* - draw.start, which may be negative, and the index-buffer bit is set.
C24_StagedIndexResolved ==
  (Finalized /\ ~crashed /\ IndexStagings(calls) # {})
    => /\ Cardinality(IndexStagings(calls)) = 1
       /\ \A n \in IndexStagings(calls) :
            ib.draw_start_offset
              = (calls[n].out_offset \div ib.state.index_size) - draw.start
       /\ ib.resource = UploadBuffer
       /\ "INDEX_BUFFER" \in dirty

\* a pending client span was staged at the start of the upload buffer for a
\* draw that starts past the first index: the resolved start is negative
C24_NegativeStart ==
  /\ Finalized
  /\ ~crashed
  /\ ib.state.user_buffer # NULL
  /\ draw.start > 0
  /\ \E n \in IndexStagings(calls) :
       calls[n].fn = "u_upload_data" /\ calls[n].out_offset = 0
  /\ ib.draw_start_offset < 0

\* C25: each pending constant-buffer span installed by set_constant_buffer
\* is staged at most once: of two consecutive finalize passes with no
\* binding mutator between them, the second performs no constant-buffer
\* staging and leaves every constant-buffer slot and count as the first
\* left them, even though the constant-buffer bit is still set.
C25_StagedOnce ==
  [][(op.name = "finalize_3d_states" /\ op'.name = "finalize_3d_states")
       => /\ CbufUploads(calls') = {}
          /\ cbuf' = cbuf]_vars

\* a finalize staged nothing while the constant-buffer bit is set and every
\* enabled slot, at least two of them, holds the output of an earlier
\* staging
C25_SecondPassOverStaged ==
  /\ Finalized
  /\ ~crashed
  /\ "CONSTANT_BUFFER" \in dirty
  /\ CbufUploads(calls) = {}
  /\ cbuf["FRAGMENT"].enabled_mask = {0, 1}
  /\ \A i \in {0, 1} :
       /\ cbuf["FRAGMENT"].cso[i].resource = UploadBuffer
       /\ cbuf["FRAGMENT"].cso[i].user_buffer = NULL

\* every slot outside [start, start + n) holds in new what it holds in old
SameOutside(old, new, start, n) ==
  \A i \in Slots : (i < start \/ i >= start + n)
                     => new.states[i] = old.states[i]

\* C26: sparse_update(start, n, handles_or_null) on any reachable array
\* changes only slots in [start, start+n): every slot outside that range
\* holds the same handle before and after the call, for compute samplers,
\* compute sampler views, shader resources, compute resources and global
\* bindings.
C26_SparseUpdateInRange ==
  \A r \in RangesWithin :
    /\ "bind_compute_sampler_states" \in workload.entries =>
         \A h \in Arrays(Samplers, r[2]) :
           SameOutside(sampler["COMPUTE"],
                       bind_samplers(sampler["COMPUTE"], r[1], r[2], h, FALSE),
                       r[1], r[2])
    /\ "set_compute_sampler_views" \in workload.entries =>
         \A h \in Arrays(Views, r[2]) :
           SameOutside(view["COMPUTE"],
                       set_sampler_views(view["COMPUTE"], r[1], r[2], h, FALSE),
                       r[1], r[2])
    /\ "set_shader_resources" \in workload.entries =>
         \A h \in Arrays(Surfaces, r[2]) :
           SameOutside(resource, SparseUpdate(resource, r[1], r[2], h),
                       r[1], r[2])
    /\ "set_compute_resources" \in workload.entries =>
         \A h \in Arrays(Surfaces, r[2]) :
           SameOutside(cs_resource, SparseUpdate(cs_resource, r[1], r[2], h),
                       r[1], r[2])
    /\ "set_global_binding" \in workload.entries =>
         \A h \in Arrays(GlobalResources, r[2]) :
           SameOutside(global_binding,
                       SparseUpdate(global_binding, r[1], r[2], h),
                       r[1], r[2])

\* sparse updates left the global bindings with the first and the last slot
\* occupied by different handles: one call cannot have written both
C26_KeptAcrossCalls ==
  /\ op.name = "set_global_binding"
  /\ ~crashed
  /\ global_binding.states[0] = "B1"
  /\ global_binding.states[MaxSlots - 1] = "T1"
  /\ global_binding.count = MaxSlots

\* C27: in every reachable state of a live context (no call has aborted and
\* the context is not torn down), for every shader stage and constant-buffer
\* slot: an enabled slot holds exactly one of a device resource reference or
\* a pending client byte span, never both and never neither, and a slot that
\* is not enabled holds neither.
C27_ResourceOrSpan ==
  Live =>
    \A sh \in Shaders : \A i \in BufferSlots :
      IF i \in cbuf[sh].enabled_mask
        THEN (cbuf[sh].cso[i].resource # NULL)
               # (cbuf[sh].cso[i].user_buffer # NULL)
        ELSE /\ cbuf[sh].cso[i].resource = NULL
             /\ cbuf[sh].cso[i].user_buffer = NULL

\* the first slot holds a client span installed over a resource staged by a
\* finalize that counted two slots, and the second slot has been disabled
C27_SpanOverStaged ==
  /\ op.name = "set_constant_buffer"
  /\ ~crashed
  /\ draw # NoDraw
  /\ cbuf["FRAGMENT"].enabled_mask = {0}
  /\ cbuf["FRAGMENT"].cso[0].user_buffer # NULL
  /\ cbuf["FRAGMENT"].cso[0].surface.size = 16
  /\ cbuf["FRAGMENT"].cso[0].surface.offset > 0
  /\ cbuf["FRAGMENT"].count = 2

\* C28: an index binding that has neither a backing buffer nor a pending
\* client span (never set, or reset by set_index_buffer(null)) is surfaced
\* as an immediate fatal abort when an indexed draw is finalized: the
\* finalizer does not go on to the alignment test, the staging or the offset
\* arithmetic, and does not return.
C28_UnbackedIndexedDrawAborts ==
  [][(op'.name = "finalize_3d_states"
        /\ draw'.indexed
        /\ ib.state.buffer = NULL
        /\ ib.state.user_buffer = NULL)
       => /\ crashed'
          /\ IndexStagings(calls') = {}]_vars

\* an indexed draw was finalized over the index binding of a fresh context
\* and finalize returned
C28_ReturnedOverUnbacked ==
  /\ Finalized
  /\ ~crashed
  /\ draw.indexed
  /\ ib = EmptyIb
  /\ Unmaps # {}

\* C29: notify_resource_dirty that returns changes only the dirty flag set:
\* the slot contents and counts of every binding category (compute resources
\* included), the constant buffers, the index buffer, the stream-output
\* targets and the framebuffer state are the same before and after the call.
C29_NotifyChangesOnlyDirty ==
  [][(op'.name = "mark_states_with_resource_dirty" /\ ~crashed')
       => UNCHANGED <<slotVars, bufVars>>]_vars

\* The bindings other than the compute resources across a notify.
NotifyKeepsOtherBindings ==
  [][op'.name = "mark_states_with_resource_dirty"
       => UNCHANGED <<sampler, view, resource, global_binding, bufVars,
                      csoVars>>]_vars

\* a notify returned after it had emptied a compute-resource slot
NotifyReleasedComputeResource ==
  /\ Notified
  /\ ~crashed
  /\ cs_resource.count > 0
  /\ cs_resource.states[0] = NULL

\* C30: notify_resource_dirty completes without reading through an empty
\* slot in every reachable binding state, states where sampler views, shader
\* resources, compute resources or stream-output targets have empty slots
\* below their count included: no notify call faults.
C30_NotifyCompletes ==
  [][op'.name = "mark_states_with_resource_dirty" => ~crashed']_vars

\* the bits a finalize can raise
FinalizeBits == {"VS", "GS", "FS", "INDEX_BUFFER"}

\* C31: finalize raises no dirty bit other than the vertex-shader,
\* geometry-shader, fragment-shader and index-buffer bits: for every state
\* and every draw, each other category's bit has the same value before and
\* after ilo_finalize_3d_states.
C31_FinalizeRaisesOnlyItsBits ==
  [][op'.name = "finalize_3d_states"
       => \A b \in ILO_DIRTY_ALL \ FinalizeBits :
            (b \in dirty') <=> (b \in dirty)]_vars

\* a finalize entered with a clean word selected new kernels for the three
\* graphics stages: their bits are the only ones set when it returns
C31_StageBitsRaisedOnCleanWord ==
  /\ Finalized
  /\ ~crashed
  /\ Len(calls) > 0
  /\ calls[1].fn = "ilo_shader_select_kernel"
  /\ calls[1].dirty = {}
  /\ calls[1].ret
  /\ dirty = {"VS", "GS", "FS"}

====
